---------------------------- MODULE Spec2Model ----------------------------
(***************************************************************************)
(* Topic discovery and temporal trend pipeline of gpt-in-review:           *)
(* TopicsStrategy (strategies/topics.py), the label protocol of            *)
(* TopicStreamStrategy (strategies/topic_stream.py) and the driver         *)
(* (main.py).  Strings are Python strings; the string helpers below        *)
(* compute what the Python built-ins compute.                              *)
(***************************************************************************)
EXTENDS Integers, Sequences, FiniteSets, TLC

VARIABLES
    (* label protocol *)
    labeler,        \* which label function runs
    example_keys,   \* the keys of the examples dict, in insertion order
    lpc,            \* position inside the label function
    raw_response,   \* the batch oracle's response text ("" before the call)
    lines,          \* raw_response split on newlines
    line_idx,       \* index of the next line the parse loop handles
    labels,         \* dict cluster id -> label
    raw_labels,     \* dict cluster id -> label as parsed, before any fix
    regen_log,      \* cluster ids _regenerate_single_label was called with, in order
    oracle_calls,   \* chat.completions.create calls made so far
    lresult,        \* what the label function returned
    (* TopicsStrategy.run under run_strategy *)
    rpc,            \* position inside run
    has_conversations, \* whether the strategy object has the attribute "conversations"
    n,              \* len(records)
    openai_key,     \* OPENAI_API_KEY is set
    google_key,     \* GOOGLE_API_KEY or GEMINI_API_KEY is set
    embedded,       \* len(embeddings) so far
    k_topics,       \* catalog cluster count (0 before it is computed)
    k_stream,       \* trend cluster count (0 before it is computed)
    kmeans_calls,   \* the (k, n) of every KMeans fit so far
    calls_log,      \* the oracle calls made so far, in order
    soft_failures,  \* the label, reading and image steps that failed so far
    witty_summary,  \* what _generate_witty_summary returned
    image_written,  \* tarot_card.png was written by this run
    result,         \* what run_strategy got: the dict's keys and its error
    tarot_info,     \* what _parse_tarot_info returned ({} before it is called)
    tarot,          \* the "tarot" value of the dict run returned
    (* representative sampling of one cluster *)
    spc,            \* position inside the sampling of the cluster
    resolution,     \* "catalog": _build_cluster_summaries, "trend": _gather_cluster_examples
    n_members,      \* number of records of the cluster
    dist_stride,    \* decides the cluster's distances to its centroid
    sorted_by_dist, \* the cluster's record indices by ascending distance
    sample_indices, \* the record indices sampled, in sample order
    examples,       \* the sampled records whose text is on the cluster's digest line
    (* _build_streamgraph *)
    gpc,            \* position inside _build_streamgraph
    records,        \* the records: ISO (year, week), period key, stream_cluster
    now_iso,        \* ISO (year, week) of datetime.now()
    topic_labels,   \* the labels argument: dict stream cluster -> label
    periods,        \* the period keys kept, in order
    period_topic_counts, \* dict period -> dict cluster -> count
    sorted_topics,  \* the cluster ids in column order
    keys,           \* the "keys" of the returned dict
    values,         \* the "values" of the returned dict: one row per period
    (* record extraction *)
    epc,            \* position inside the extraction
    conversations_set, \* whether the strategy object has the attribute "conversations"
    extractor,      \* "records": _extract_records, "first_user_message": _extract_first_user_message
    num_conversations, \* len(self.conversations)
    conv_idx,       \* number of conversations the loop has handled
    data,           \* the conversation handled last
    extracted,      \* the records list
    emitted_from,   \* for each record, the position of its conversation
    first_msg,      \* what _extract_first_user_message returned: <<>> for None
    (* period keys *)
    kpc,            \* position inside the computation of the two keys
    record_iso,     \* dt.isocalendar() of a record's timestamp: <<year, week>>
    current_iso,    \* now.isocalendar(): <<year, week>>
    period_key,     \* period_key of the record
    now_period,     \* current_period of _build_streamgraph
    (* embeddings *)
    mpc,            \* position inside _get_embeddings
    questions,      \* the records handed to _get_embeddings
    embeddings,     \* the embeddings list
    batches,        \* <<start, end>> of every request made, in order
    resp_data,      \* resp.data of the request that has just returned
    reordered,      \* some response came back out of input order
    (* the driver's worker pool *)
    ppc,            \* position of the main thread
    strategy_names, \* sorted(all_strategies.keys())
    conversations,  \* the corpus every strategy is handed
    task,           \* for each strategy, where its run_strategy call is
    future,         \* for each strategy, what its future holds once finished
    status,         \* the status dict of main
    results,        \* the results dict of main
    (* the catalog ranking *)
    cpc,            \* position inside the ranking of the catalog clusters
    topics_labels,  \* the catalog cluster of every record (fit_predict)
    clusters,       \* the groups of _build_cluster_summaries, in insertion order
    cluster_summaries, \* what _build_cluster_summaries returns
    topic_cluster_labels, \* the labels of the ranks
    topics_list,    \* the "topics" of the result
    cluster_list,   \* the lines of _format_clusters_for_prompt
    (* merge_results and the collection loop of main *)
    dpc,            \* position: "collect", "merge", "written"
    ran,            \* strategy name -> "returns" or "error": what its run gave
    all_results,    \* the results dict, as its (name, result) items in insertion order
    site_data       \* data of merge_results, written to data.json

lvars == <<labeler, example_keys, lpc, raw_response, lines, line_idx, labels, raw_labels,
           regen_log, oracle_calls, lresult>>

rvars == <<rpc, n, has_conversations, openai_key, google_key, embedded, k_topics, k_stream,
           kmeans_calls, calls_log, soft_failures, witty_summary, image_written,
           result, tarot_info, tarot>>

svars == <<spc, resolution, n_members, dist_stride, sorted_by_dist, sample_indices,
           examples>>

gvars == <<gpc, records, now_iso, topic_labels, periods, period_topic_counts,
           sorted_topics, keys, values>>

evars == <<epc, conversations_set, extractor, num_conversations, conv_idx, data, extracted,
           emitted_from, first_msg>>

kvars == <<kpc, record_iso, current_iso, period_key, now_period>>

mvars == <<mpc, questions, embeddings, batches, resp_data, reordered>>

pvars == <<ppc, strategy_names, conversations, task, future, status, results>>

cvars == <<cpc, topics_labels, clusters, cluster_summaries, topic_cluster_labels, topics_list, cluster_list>>

dvars == <<dpc, ran, all_results, site_data>>

vars == <<lvars, rvars, svars, gvars, evars, kvars, mvars, pvars, cvars, dvars>>

\* What each part of the program leaves alone
NotLabelVars == <<rvars, svars, gvars, evars, kvars, mvars, pvars, cvars, dvars>>
NotRunVars == <<lvars, svars, gvars, evars, kvars, mvars, pvars, cvars, dvars>>
NotSampleVars == <<lvars, rvars, gvars, evars, kvars, mvars, pvars, cvars, dvars>>
NotStreamVars == <<lvars, rvars, svars, evars, kvars, mvars, pvars, cvars, dvars>>
NotExtractVars == <<lvars, rvars, svars, gvars, kvars, mvars, pvars, cvars, dvars>>
NotKeyVars == <<lvars, rvars, svars, gvars, evars, mvars, pvars, cvars, dvars>>
NotEmbedVars == <<lvars, rvars, svars, gvars, evars, kvars, pvars, cvars, dvars>>
NotPoolVars == <<lvars, rvars, svars, gvars, evars, kvars, mvars, cvars, dvars>>
NotRankVars == <<lvars, rvars, svars, gvars, evars, kvars, mvars, pvars, dvars>>
NotMergeVars == <<lvars, rvars, svars, gvars, evars, kvars, mvars, pvars, cvars>>

-----------------------------------------------------------------------------
(* Python string built-ins *)

Min(a, b) == IF a <= b THEN a ELSE b
Max(a, b) == IF a >= b THEN a ELSE b

\* A string of the model holds characters up to U+00FF.  The letters of that
\* range that str.lower() changes, and what it changes them to
UpperChars == "ABCDEFGHIJKLMNOPQRSTUVWXYZÀÁÂÃÄÅÆÇÈÉÊËÌÍÎÏÐÑÒÓÔÕÖØÙÚÛÜÝÞ"
LowerChars == "abcdefghijklmnopqrstuvwxyzàáâãäåæçèéêëìíîïðñòóôõöøùúûüýþ"
DigitChars == "0123456789"

CharAt(s, i) == SubSeq(s, i, i)

\* index of the one-character string c in s at or after position i, 0 when absent
RECURSIVE IndexFrom(_, _, _)
IndexFrom(s, c, i) ==
    IF i > Len(s) THEN 0
    ELSE IF CharAt(s, i) = c THEN i
    ELSE IndexFrom(s, c, i + 1)

\* str.find(c) + 1
IndexOf(s, c) == IndexFrom(s, c, 1)

\* the lower-case letter of each upper-case letter
LowerOf ==
    [c \in {CharAt(UpperChars, i) : i \in 1..Len(UpperChars)} |->
        CharAt(LowerChars, IndexOf(UpperChars, c))]

LowerChar(c) == IF c \in DOMAIN LowerOf THEN LowerOf[c] ELSE c

\* str.lower()
RECURSIVE ToLower(_)
ToLower(s) ==
    IF Len(s) = 0 THEN "" ELSE LowerChar(CharAt(s, 1)) \o ToLower(SubSeq(s, 2, Len(s)))

\* pat in s
Contains(s, pat) ==
    \E i \in 1..(Len(s) - Len(pat) + 1) : SubSeq(s, i, i + Len(pat) - 1) = pat

\* The characters up to U+00FF that str.strip() drops and \s matches:
\* U+0009 to U+000D, U+001C to U+001F, the blank, U+0085 and U+00A0
Whitespace ==
    {" ", "\t", "\n", "\r", "\f", "", "", "", "", "", "", " "}

\* the characters int() drops around its digits: not U+001C to U+001F
IntWhitespace == {" ", "\t", "\n", "\r", "\f", "", "", " "}

\* str.strip(chars): drop leading and trailing characters of the set
RECURSIVE LStripChars(_, _)
LStripChars(s, chars) ==
    IF Len(s) > 0 /\ CharAt(s, 1) \in chars
    THEN LStripChars(SubSeq(s, 2, Len(s)), chars) ELSE s

RECURSIVE RStripChars(_, _)
RStripChars(s, chars) ==
    IF Len(s) > 0 /\ CharAt(s, Len(s)) \in chars
    THEN RStripChars(SubSeq(s, 1, Len(s) - 1), chars) ELSE s

StripChars(s, chars) == RStripChars(LStripChars(s, chars), chars)

\* str.strip()
Strip(s) == StripChars(s, Whitespace)

\* s[:n]
Prefix(s, count) == SubSeq(s, 1, Min(count, Len(s)))

\* str.split("\n")
RECURSIVE SplitLines(_)
SplitLines(s) ==
    IF IndexOf(s, "\n") = 0 THEN <<s>>
    ELSE <<SubSeq(s, 1, IndexOf(s, "\n") - 1)>>
            \o SplitLines(SubSeq(s, IndexOf(s, "\n") + 1, Len(s)))

\* "\n".join(seq)
RECURSIVE JoinLines(_)
JoinLines(seq) ==
    IF Len(seq) = 0 THEN ""
    ELSE IF Len(seq) = 1 THEN seq[1]
    ELSE seq[1] \o "\n" \o JoinLines(Tail(seq))

\* line.split(":", 1) of a line that holds a colon
SplitColon(line) ==
    <<SubSeq(line, 1, IndexOf(line, ":") - 1),
      SubSeq(line, IndexOf(line, ":") + 1, Len(line))>>

\* the digits of an int literal: decimal digits, with single underscores
\* between them
IsDigits(s) ==
    /\ Len(s) > 0
    /\ \A i \in 1..Len(s) :
          \/ IndexOf(DigitChars, CharAt(s, i)) > 0
          \/ /\ CharAt(s, i) = "_"
             /\ 1 < i /\ i < Len(s)
             /\ IndexOf(DigitChars, CharAt(s, i - 1)) > 0
             /\ IndexOf(DigitChars, CharAt(s, i + 1)) > 0

\* the value of the digits, underscores passed over
RECURSIVE DigitsValue(_)
DigitsValue(s) ==
    IF Len(s) = 0 THEN 0
    ELSE IF CharAt(s, Len(s)) = "_" THEN DigitsValue(SubSeq(s, 1, Len(s) - 1))
    ELSE 10 * DigitsValue(SubSeq(s, 1, Len(s) - 1))
            + (IndexOf(DigitChars, CharAt(s, Len(s))) - 1)

\* int(s) succeeds: surrounding whitespace, an optional sign, digits
IntParses(s) ==
    LET t == StripChars(s, IntWhitespace)
        u == IF Len(t) > 0 /\ CharAt(t, 1) \in {"+", "-"} THEN SubSeq(t, 2, Len(t)) ELSE t
    IN  IsDigits(u)

\* int(s), where IntParses(s)
IntValue(s) ==
    LET t == StripChars(s, IntWhitespace)
    IN  IF CharAt(t, 1) = "-" THEN 0 - DigitsValue(SubSeq(t, 2, Len(t)))
        ELSE IF CharAt(t, 1) = "+" THEN DigitsValue(SubSeq(t, 2, Len(t)))
        ELSE DigitsValue(t)

\* The characters of period keys and labels, in code point order
CodePointOrder ==
    " -0123456789:ABCDEFGHIJKLMNOPQRSTUVWXYZ_abcdefghijklmnopqrstuvwxyz"

\* the rank of ord(c) among these characters
CodePoint(c) == IndexOf(CodePointOrder, c)

\* a < b on strings: by the first character that differs, a proper prefix first
RECURSIVE StrLess(_, _)
StrLess(a, b) ==
    IF Len(b) = 0 THEN FALSE
    ELSE IF Len(a) = 0 THEN TRUE
    ELSE IF CharAt(a, 1) = CharAt(b, 1)
    THEN StrLess(SubSeq(a, 2, Len(a)), SubSeq(b, 2, Len(b)))
    ELSE CodePoint(CharAt(a, 1)) < CodePoint(CharAt(b, 1))

\* sorted(S) of a set of strings
RECURSIVE SortedStrings(_)
SortedStrings(S) ==
    IF S = {} THEN <<>>
    ELSE LET least == CHOOSE x \in S : \A y \in S \ {x} : StrLess(x, y)
         IN  <<least>> \o SortedStrings(S \ {least})

\* str(i) for i >= 0
RECURSIVE IntToStr(_)
IntToStr(i) ==
    IF i < 10 THEN CharAt(DigitChars, i + 1)
    ELSE IntToStr(i \div 10) \o CharAt(DigitChars, (i % 10) + 1)

\* f"{i}": no padding
NoPad(i) == IntToStr(i)

\* f"{i:02d}" for i >= 0
ZeroPad2(i) == IF i < 10 THEN "0" \o IntToStr(i) ELSE IntToStr(i)

-----------------------------------------------------------------------------
(* Dicts: a dict is a function; d[k] = v adds or overwrites one key *)

EmptyDict == [x \in {} |-> ""]

Put(d, k, v) == [x \in (DOMAIN d) \cup {k} |-> IF x = k THEN v ELSE d[x]]

\* d.get(k, default)
Get(d, k, default) == IF k \in DOMAIN d THEN d[k] ELSE default

-----------------------------------------------------------------------------
(* Label protocol: TopicStreamStrategy._generate_labels_batch and          *)
(* _regenerate_single_label, TopicsStrategy._generate_stream_labels and    *)
(* _generate_cluster_labels                                                *)

NumClusters == 3
MaxLines == 3

Labelers == {"labels_batch", "stream_labels", "cluster_labels"}

\* Keys of the examples dict: stream cluster ids 0..k-1; the catalog
\* summaries are keyed by rank 1..k.
ClusterIds(lab) ==
    IF lab = "cluster_labels" THEN 1..NumClusters ELSE 0..(NumClusters - 1)

\* cluster_examples.get(cluster_id, []) is non-empty exactly for a cluster id:
\* every cluster in the dict has at least one member.
HasExamples(lab, cluster_id) == cluster_id \in ClusterIds(lab)

forbidden_patterns ==
    {"new york", "nyc", "brooklyn", "manhattan", "san francisco",
     "bay area", "los angeles", "chicago", "london", "paris",
     "tokyo", "berlin", "seattle", "boston", "austin", "denver",
     "openai", "chatgpt", "gpt-4", "anthropic", "google",
     "microsoft", "amazon", "facebook", "twitter",
     "netflix", "spotify", "uber", "airbnb", "tesla"}

generic_patterns == {"topic ", "cluster ", "miscellaneous", "general", "various", "other"}

regenerate_generic_patterns == {"topic", "cluster", "misc", "general", "various", "other"}

DefaultLabel == "Diverse Queries"

\* needs_fix of _generate_labels_batch
NeedsFix(label) ==
    LET label_lower == ToLower(label)
    IN  \/ \E pat \in forbidden_patterns : Contains(label_lower, pat)
        \/ \E pat \in generic_patterns : Contains(label_lower, pat)

\* A response of the single-cluster oracle call: it raises, or returns text.
Raised == [raises |-> TRUE, text |-> ""]
Returned(t) == [raises |-> FALSE, text |-> t]

\* _regenerate_single_label(client, cluster_id, examples), given what the
\* oracle call does when it is made
RegenerateSingleLabel(has_examples, out) ==
    IF ~has_examples THEN DefaultLabel
    ELSE IF out.raises THEN DefaultLabel
    ELSE LET label == Prefix(Strip(out.text), 25)
             label_lower == ToLower(label)
         IN  IF \E pat \in regenerate_generic_patterns : Contains(label_lower, pat)
             THEN DefaultLabel
             ELSE label

\* The label a line of the batch response gives, per label function
ParsedLabel(lab, rest) ==
    IF lab = "labels_batch" THEN Prefix(Strip(rest), 25)
    ELSE IF lab = "stream_labels"
    THEN Prefix(StripChars(Strip(rest), {"*", "\"", "'"}), 25)
    ELSE StripChars(Strip(rest), {"*", "\"", "'"})

\* A line the parse loop accepts: it holds a colon and int() takes what is
\* before the first colon.
LineParses(line) ==
    /\ Contains(line, ":")
    /\ IntParses(Strip(SplitColon(line)[1]))

LineId(line) == IntValue(Strip(SplitColon(line)[1]))

\* What the label function returns when the batch call raises
OnBatchError(lab) ==
    IF lab = "stream_labels"
    THEN [cid \in ClusterIds(lab) |-> DefaultLabel]
    ELSE EmptyDict

\* The texts the oracles are taken to answer with
LineUniverse ==
    {"0: Code Therapy", "1: Recipe Rescue", "2: Paris Trips", "1:",
     "2: Hot Topics", "3: General Help", "Sure: here you go"}

FallbackTexts == {"Syntax Sorcery", "Tokyo Nights", "Misc Stuff", "  "}

FallbackOutcomes == {Raised} \cup {Returned(t) : t \in FallbackTexts}

RECURSIVE SeqsUpTo(_, _)
SeqsUpTo(S, len) ==
    IF len = 0 THEN {<<>>}
    ELSE LET shorter == SeqsUpTo(S, len - 1)
         IN  shorter \cup {Append(q, x) : q \in {r \in shorter : Len(r) = len - 1}, x \in S}

BatchResponses == {JoinLines(q) : q \in SeqsUpTo(LineUniverse, MaxLines)}

\* The orders in which the examples dict can hold its keys.  The dict of
\* TopicStreamStrategy.run holds the clusters in the order their first records
\* come in the input; the other two label functions walk sorted keys and
\* ranked summaries.
KeyOrders(lab) ==
    IF lab = "labels_batch"
    THEN {order \in [1..NumClusters -> ClusterIds(lab)] :
             \A i, j \in 1..NumClusters : i # j => order[i] # order[j]}
    ELSE {[i \in 1..NumClusters |-> IF lab = "cluster_labels" THEN i ELSE i - 1]}

LabelInit ==
    /\ labeler \in Labelers
    /\ example_keys \in KeyOrders(labeler)
    /\ lpc = "start"
    /\ raw_response = ""
    /\ lines = <<>>
    /\ line_idx = 0
    /\ labels = EmptyDict
    /\ raw_labels = EmptyDict
    /\ regen_log = <<>>
    /\ oracle_calls = 0
    /\ lresult = EmptyDict

\* client.chat.completions.create raises (or the response holds no text):
\* the except clause returns.
BatchRaises ==
    /\ lpc = "start"
    /\ lpc' = "done"
    /\ oracle_calls' = oracle_calls + 1
    /\ lresult' = OnBatchError(labeler)
    /\ UNCHANGED <<labeler, example_keys, raw_response, lines, line_idx, labels, raw_labels, regen_log>>
    /\ UNCHANGED NotLabelVars

\* The batch call returns text: strip it and split it into lines.
BatchReturns ==
    /\ lpc = "start"
    /\ \E content \in BatchResponses :
          /\ raw_response' = Strip(content)
          /\ lines' = SplitLines(Strip(content))
    /\ line_idx' = 1
    /\ lpc' = "parse"
    /\ oracle_calls' = oracle_calls + 1
    /\ UNCHANGED <<labeler, example_keys, labels, raw_labels, regen_log, lresult>>
    /\ UNCHANGED NotLabelVars

\* One iteration of the parse loop that skips its line: no colon, or int() raises.
ParseSkip ==
    /\ lpc = "parse"
    /\ line_idx <= Len(lines)
    /\ ~LineParses(lines[line_idx])
    /\ line_idx' = line_idx + 1
    /\ UNCHANGED <<labeler, example_keys, lpc, raw_response, lines, labels, raw_labels, regen_log,
                   oracle_calls, lresult>>
    /\ UNCHANGED NotLabelVars

\* One iteration of the parse loop that stores the line's label as it is.
ParseKeep ==
    /\ lpc = "parse"
    /\ line_idx <= Len(lines)
    /\ LineParses(lines[line_idx])
    /\ LET cluster_id == LineId(lines[line_idx])
           label == ParsedLabel(labeler, SplitColon(lines[line_idx])[2])
       IN  /\ ~(labeler = "labels_batch" /\ NeedsFix(label))
           /\ labels' = Put(labels, cluster_id, label)
           /\ raw_labels' = IF labeler = "labels_batch"
                            THEN Put(raw_labels, cluster_id, label) ELSE raw_labels
    /\ line_idx' = line_idx + 1
    /\ UNCHANGED <<labeler, example_keys, lpc, raw_response, lines, regen_log, oracle_calls, lresult>>
    /\ UNCHANGED NotLabelVars

\* One iteration of the parse loop of _generate_labels_batch whose label
\* needs a fix: _regenerate_single_label is called for the line's id.
ParseRegenerate ==
    /\ lpc = "parse"
    /\ labeler = "labels_batch"
    /\ line_idx <= Len(lines)
    /\ LineParses(lines[line_idx])
    /\ LET cluster_id == LineId(lines[line_idx])
           label == ParsedLabel(labeler, SplitColon(lines[line_idx])[2])
           has_examples == HasExamples(labeler, cluster_id)
       IN  /\ NeedsFix(label)
           /\ raw_labels' = Put(raw_labels, cluster_id, label)
           /\ regen_log' = Append(regen_log, cluster_id)
           /\ oracle_calls' = IF has_examples THEN oracle_calls + 1 ELSE oracle_calls
           /\ \E out \in (IF has_examples THEN FallbackOutcomes ELSE {Raised}) :
                 labels' = Put(labels, cluster_id, RegenerateSingleLabel(has_examples, out))
    /\ line_idx' = line_idx + 1
    /\ UNCHANGED <<labeler, example_keys, lpc, raw_response, lines, lresult>>
    /\ UNCHANGED NotLabelVars

\* The parse loop is over.  _generate_cluster_labels returns what it parsed;
\* _generate_stream_labels fills every missing id with the default and
\* returns; _generate_labels_batch goes on to its fill loop.
ParseEnd ==
    /\ lpc = "parse"
    /\ line_idx > Len(lines)
    /\ \/ /\ labeler = "cluster_labels"
          /\ lpc' = "done"
          /\ lresult' = labels
          /\ UNCHANGED labels
       \/ /\ labeler = "stream_labels"
          /\ lpc' = "done"
          /\ labels' = [cid \in (DOMAIN labels) \cup ClusterIds(labeler) |->
                            IF cid \in DOMAIN labels THEN labels[cid] ELSE DefaultLabel]
          /\ lresult' = labels'
       \/ /\ labeler = "labels_batch"
          /\ lpc' = "fill"
          /\ UNCHANGED <<labels, lresult>>
    /\ UNCHANGED <<labeler, example_keys, raw_response, lines, line_idx, raw_labels, regen_log, oracle_calls>>
    /\ UNCHANGED NotLabelVars

\* One iteration of the fill loop of _generate_labels_batch that finds its
\* cluster id missing.  The loop walks the dict's keys in insertion order.
NextMissing ==
    example_keys[CHOOSE i \in 1..Len(example_keys) :
                    /\ example_keys[i] \notin DOMAIN labels
                    /\ \A j \in 1..(i - 1) : example_keys[j] \in DOMAIN labels]

FillMissing ==
    /\ lpc = "fill"
    /\ ClusterIds(labeler) \ DOMAIN labels # {}
    /\ regen_log' = Append(regen_log, NextMissing)
    /\ \E out \in FallbackOutcomes :
          labels' = Put(labels, NextMissing,
                        RegenerateSingleLabel(HasExamples(labeler, NextMissing), out))
    /\ oracle_calls' = oracle_calls + 1
    /\ UNCHANGED <<labeler, example_keys, lpc, raw_response, lines, line_idx, raw_labels, lresult>>
    /\ UNCHANGED NotLabelVars

\* No id is missing any more: return labels.
FillEnd ==
    /\ lpc = "fill"
    /\ ClusterIds(labeler) \subseteq DOMAIN labels
    /\ lpc' = "done"
    /\ lresult' = labels
    /\ UNCHANGED <<labeler, example_keys, raw_response, lines, line_idx, labels, raw_labels, regen_log,
                   oracle_calls>>
    /\ UNCHANGED NotLabelVars



LabelNext ==
    \/ BatchRaises
    \/ BatchReturns
    \/ ParseSkip
    \/ ParseKeep
    \/ ParseRegenerate
    \/ ParseEnd
    \/ FillMissing
    \/ FillEnd

-----------------------------------------------------------------------------
(* TopicsStrategy.run, called by run_strategy of main.py *)

STREAMGRAPH_TOPICS == 10
BatchSize == 100
MaxSmallCorpus == 12

\* len(records) of the runs explored: every small corpus, and sizes around
\* the steps of the cluster-count rule
CorpusSizes == (0..MaxSmallCorpus) \cup {49, 120, 250, 499, 500, 2600}

\* the catalog count without its floor: min(50, n // 50)
KTopicsNoFloor(size) == Min(50, size \div 50)

\* k_topics = min(50, max(10, n // 50))
KTopics(size) == Min(50, Max(10, size \div 50))

\* k_stream = min(self.STREAMGRAPH_TOPICS, n // 50); k_stream = max(3, k_stream)
KStream(size) == Max(3, Min(STREAMGRAPH_TOPICS, size \div 50))

\* KMeans(n_clusters=k).fit_predict(X) on len(X) = size samples returns;
\* scikit-learn raises ValueError when there are fewer samples than clusters.
KMeansFits(k, size) == size >= k

\* What a step of run hands back: a value, or an exception that leaves run.
Value(v) == [raised |-> FALSE, value |-> v]
Propagates == [raised |-> TRUE, value |-> ""]

\* _generate_cluster_labels: its try/except returns {} when the call raises.
\* "labels" stands for the parsed dict, "empty" for {}.
GenerateClusterLabels(out) ==
    IF out = "raises" THEN Value("empty") ELSE Value("labels")

\* _generate_witty_summary without its try/except: the exception leaves it
GenerateWittySummaryNoCatch(out) ==
    IF out.raises THEN Propagates
    ELSE Value(Strip(out.text))

\* _generate_witty_summary: its try/except returns a fixed text when the
\* call raises.
GenerateWittySummary(out) ==
    IF out.raises THEN Value("(Could not generate summary: error)")
    ELSE Value(Strip(out.text))

\* _generate_tarot_image with a missing key treated as an error
GenerateTarotImageKeyRequired(has_key, out) ==
    IF ~has_key THEN Propagates
    ELSE IF out = "raises" THEN Value("None")
    ELSE IF out = "no_image" THEN Value("None")
    ELSE Value("tarot_card.png")

\* _generate_tarot_image: None without a key, None when the call raises or
\* the response holds no image part, the path of the file it wrote otherwise.
GenerateTarotImage(has_key, out) ==
    IF ~has_key THEN Value("None")
    ELSE IF out = "raises" THEN Value("None")
    ELSE IF out = "no_image" THEN Value("None")
    ELSE Value("tarot_card.png")

\* _generate_stream_labels: its try/except returns the default for every
\* cluster id when the call raises.
GenerateStreamLabels(out) ==
    IF out = "raises" THEN Value("defaults") ELSE Value("labels")

\* _empty_result(error)
EmptyResult(error) ==
    [keys |-> {"error", "topics", "tarot", "streamgraph"}, error |-> error]

\* the dict run returns at its end
RunResult == [keys |-> {"topics", "tarot", "streamgraph"}, error |-> ""]

\* run_strategy's except clause: results = {"error": str(e)}
ExceptionResult(message) == [keys |-> {"error"}, error |-> message]

NoResult == [keys |-> {}, error |-> ""]

\* merge_results on the result of "topics": result.get(key, default) for the
\* three sections; "value" stands for what run computed
MergeTopics(res) ==
    [topics |-> IF "topics" \in res.keys THEN "value" ELSE "[]",
     tarot |-> IF "tarot" \in res.keys THEN "value" ELSE "{}",
     streamgraph |-> IF "streamgraph" \in res.keys THEN "value" ELSE "{}"]

\* The em dash of the reading's format, U+2014, written with a character
\* the readings do not use otherwise
EmDash == "~"

\* the number of characters from position i on that are in (not in) a set
RECURSIVE RunOf(_, _, _)
RunOf(s, i, chars) ==
    IF i <= Len(s) /\ CharAt(s, i) \in chars THEN 1 + RunOf(s, i + 1, chars) ELSE 0

RECURSIVE RunOfNot(_, _, _)
RunOfNot(s, i, chars) ==
    IF i <= Len(s) /\ CharAt(s, i) \notin chars THEN 1 + RunOfNot(s, i + 1, chars) ELSE 0

NoMatch == [found |-> FALSE, group |-> ""]
Match(g) == [found |-> TRUE, group |-> g]

\* s[i:i+len(pat)] == pat
HoldsAt(s, i, pat) == i + Len(pat) - 1 <= Len(s) /\ SubSeq(s, i, i + Len(pat) - 1) = pat

\* re.search(r"\*\*([^*]+)\*\*", s), looking from position i on
RECURSIVE SearchBold(_, _)
SearchBold(s, i) ==
    IF i > Len(s) THEN NoMatch
    ELSE LET run == RunOfNot(s, i + 2, {"*"})
         IN  IF HoldsAt(s, i, "**") /\ run >= 1 /\ HoldsAt(s, i + 2 + run, "**")
             THEN Match(SubSeq(s, i + 2, i + 1 + run))
             ELSE SearchBold(s, i + 1)

\* re.search(r"<em dash>\s*\*([^*]+)\*", s), looking from position i on
RECURSIVE SearchItalicAfterDash(_, _)
SearchItalicAfterDash(s, i) ==
    IF i > Len(s) THEN NoMatch
    ELSE LET star == i + 1 + RunOf(s, i + 1, Whitespace)
             run == RunOfNot(s, star + 1, {"*"})
         IN  IF HoldsAt(s, i, EmDash) /\ HoldsAt(s, star, "*") /\ run >= 1
                   /\ HoldsAt(s, star + 1 + run, "*")
             THEN Match(SubSeq(s, star + 1, star + run))
             ELSE SearchItalicAfterDash(s, i + 1)

\* _parse_tarot_info(summary)
ParseTarotInfo(summary) ==
    LET card_match == SearchBold(summary, 1)
        card == IF card_match.found THEN card_match.group ELSE "The Magician"
        persona_match == SearchItalicAfterDash(summary, 1)
        persona == IF persona_match.found THEN persona_match.group ELSE "Code Alchemist"
    IN  [card |-> Strip(card), persona |-> Strip(persona)]

\* the "tarot" value of the dict run returns
TarotValue(info) ==
    [image |-> "tarot_card.png",
     title |-> Get(info, "card", "The Magician"),
     subtitle |-> Get(info, "persona", "Code Alchemist")]

\* What the reading oracle is taken to answer: a reading in the format, one
\* with no card line, one whose bold and italic pairs hold blanks only
ReadingTexts ==
    {"**The Hermit** " \o EmDash \o " *Debug Monk*\n\nA lantern.",
     "no card here",
     "** ** " \o EmDash \o " * *"}

\* Strategy.__init__ stores its first argument as conversations_dir and sets
\* no attribute "conversations": the object run_strategy builds has none, and
\* _extract_records reads it.  A caller that assigns the attribute itself
\* gives the object it.
RunInit ==
    /\ rpc = "start"
    /\ n \in CorpusSizes
    /\ has_conversations \in BOOLEAN
    /\ openai_key \in BOOLEAN
    /\ google_key \in BOOLEAN
    /\ embedded = 0
    /\ k_topics = 0
    /\ k_stream = 0
    /\ kmeans_calls = <<>>
    /\ calls_log = <<>>
    /\ soft_failures = {}
    /\ witty_summary = ""
    /\ image_written = FALSE
    /\ result = NoResult
    /\ tarot_info = EmptyDict
    /\ tarot = EmptyDict

\* if not api_key: return self._empty_result(...)
MissingKey ==
    /\ rpc = "start"
    /\ ~openai_key
    /\ rpc' = "returned"
    /\ result' = EmptyResult("OPENAI_API_KEY not found")
    /\ UNCHANGED <<n, has_conversations, openai_key, google_key, embedded, k_topics, k_stream, kmeans_calls,
                   calls_log, soft_failures, witty_summary, image_written>>
    /\ UNCHANGED <<tarot_info, tarot>>
    /\ UNCHANGED NotRunVars

\* records = self._extract_records(); if not records: return self._empty_result(...)
NoRecords ==
    /\ rpc = "start"
    /\ openai_key
    /\ has_conversations
    /\ n = 0
    /\ rpc' = "returned"
    /\ result' = EmptyResult("No valid conversations")
    /\ UNCHANGED <<n, has_conversations, openai_key, google_key, embedded, k_topics, k_stream, kmeans_calls,
                   calls_log, soft_failures, witty_summary, image_written>>
    /\ UNCHANGED <<tarot_info, tarot>>
    /\ UNCHANGED NotRunVars

\* records = self._extract_records() on an object without the attribute:
\* "for data in self.conversations" raises AttributeError, nothing in run
\* catches it, run_strategy does.
ExtractRecordsRaises ==
    /\ rpc = "start"
    /\ openai_key
    /\ ~has_conversations
    /\ rpc' = "returned"
    /\ result' = ExceptionResult("'TopicsStrategy' object has no attribute 'conversations'")
    /\ UNCHANGED <<n, has_conversations, openai_key, google_key, embedded, k_topics, k_stream,
                   kmeans_calls, calls_log, soft_failures, witty_summary, image_written>>
    /\ UNCHANGED <<tarot_info, tarot>>
    /\ UNCHANGED NotRunVars

ExtractRecords ==
    /\ rpc = "start"
    /\ openai_key
    /\ has_conversations
    /\ n > 0
    /\ rpc' = "embed"
    /\ UNCHANGED <<n, has_conversations, openai_key, google_key, embedded, k_topics, k_stream, kmeans_calls,
                   calls_log, soft_failures, witty_summary, image_written, result>>
    /\ UNCHANGED <<tarot_info, tarot>>
    /\ UNCHANGED NotRunVars

\* One iteration of the loop of _get_embeddings whose call returns.
EmbedBatch ==
    /\ rpc = "embed"
    /\ embedded < n
    /\ embedded' = Min(embedded + BatchSize, n)
    /\ calls_log' = Append(calls_log, "embeddings")
    /\ rpc' = IF embedded' < n THEN "embed" ELSE "cluster_topics"
    /\ UNCHANGED <<n, has_conversations, openai_key, google_key, k_topics, k_stream, kmeans_calls,
                   soft_failures, witty_summary, image_written, result>>
    /\ UNCHANGED <<tarot_info, tarot>>
    /\ UNCHANGED NotRunVars

\* A failed batch that is passed over: the loop goes on to the next batch
EmbedBatchSkipped ==
    /\ rpc = "embed"
    /\ embedded < n
    /\ calls_log' = Append(calls_log, "embeddings_failed")
    /\ embedded' = Min(embedded + BatchSize, n)
    /\ rpc' = IF embedded' < n THEN "embed" ELSE "cluster_topics"
    /\ UNCHANGED <<n, has_conversations, openai_key, google_key, k_topics, k_stream, kmeans_calls,
                   soft_failures, witty_summary, image_written, result>>
    /\ UNCHANGED <<tarot_info, tarot>>
    /\ UNCHANGED NotRunVars

\* One iteration of the loop of _get_embeddings whose call raises: nothing in
\* run catches it, run_strategy does.
EmbedBatchRaises ==
    /\ rpc = "embed"
    /\ embedded < n
    /\ calls_log' = Append(calls_log, "embeddings_failed")
    /\ rpc' = "returned"
    /\ result' = ExceptionResult("embedding call failed")
    /\ UNCHANGED <<n, has_conversations, openai_key, google_key, embedded, k_topics, k_stream, kmeans_calls,
                   soft_failures, witty_summary, image_written>>
    /\ UNCHANGED <<tarot_info, tarot>>
    /\ UNCHANGED NotRunVars

\* k_topics and the catalog KMeans fit; _build_cluster_summaries follows it.
ClusterTopics ==
    /\ rpc = "cluster_topics"
    /\ k_topics' = KTopics(n)
    /\ kmeans_calls' = Append(kmeans_calls, [k |-> k_topics', n |-> n])
    /\ IF KMeansFits(k_topics', n)
       THEN /\ rpc' = "label_topics"
            /\ UNCHANGED result
       ELSE /\ rpc' = "returned"
            /\ result' = ExceptionResult("n_samples should be >= n_clusters")
    /\ UNCHANGED <<n, has_conversations, openai_key, google_key, embedded, k_stream, calls_log,
                   soft_failures, witty_summary, image_written>>
    /\ UNCHANGED <<tarot_info, tarot>>
    /\ UNCHANGED NotRunVars

\* _generate_cluster_labels, then the topics list and the digest of the
\* clusters.  The oracle raises, answers text no line of which parses, or
\* answers labels.
LabelTopics ==
    /\ rpc = "label_topics"
    /\ \E out \in {"raises", "malformed", "labels"} :
          LET r == GenerateClusterLabels(out)
          IN  /\ soft_failures' = IF out = "labels" THEN soft_failures
                                  ELSE soft_failures \cup {"cluster_labels"}
              /\ IF r.raised
                 THEN /\ rpc' = "returned"
                      /\ result' = ExceptionResult("label call failed")
                 ELSE /\ rpc' = "summary"
                      /\ UNCHANGED result
    /\ calls_log' = Append(calls_log, "cluster_labels")
    /\ UNCHANGED <<n, has_conversations, openai_key, google_key, embedded, k_topics, k_stream, kmeans_calls,
                   witty_summary, image_written>>
    /\ UNCHANGED <<tarot_info, tarot>>
    /\ UNCHANGED NotRunVars

\* _generate_witty_summary
WittySummary ==
    /\ rpc = "summary"
    /\ \E out \in {Raised} \cup {Returned(t) : t \in ReadingTexts} :
          LET r == GenerateWittySummary(out)
          IN  /\ soft_failures' = IF out.raises THEN soft_failures \cup {"reading"}
                                  ELSE soft_failures
              /\ IF r.raised
                 THEN /\ rpc' = "returned"
                      /\ result' = ExceptionResult("reading call failed")
                      /\ UNCHANGED witty_summary
                 ELSE /\ rpc' = "image"
                      /\ witty_summary' = r.value
                      /\ UNCHANGED result
    /\ calls_log' = Append(calls_log, "reading")
    /\ UNCHANGED <<n, has_conversations, openai_key, google_key, embedded, k_topics, k_stream, kmeans_calls,
                   image_written>>
    /\ UNCHANGED <<tarot_info, tarot>>
    /\ UNCHANGED NotRunVars

\* _generate_tarot_image, then _parse_tarot_info
TarotImage ==
    /\ rpc = "image"
    /\ \E out \in (IF google_key THEN {"raises", "no_image", "image"} ELSE {"not_called"}) :
          LET r == GenerateTarotImage(google_key, out)
          IN  /\ soft_failures' = IF out = "image" THEN soft_failures
                                  ELSE soft_failures \cup {"image"}
              /\ calls_log' = IF google_key THEN Append(calls_log, "image") ELSE calls_log
              /\ IF r.raised
                 THEN /\ rpc' = "returned"
                      /\ result' = ExceptionResult("image call failed")
                      /\ UNCHANGED <<image_written, tarot_info>>
                 ELSE /\ rpc' = "cluster_stream"
                      /\ image_written' = (r.value # "None")
                      /\ tarot_info' = ParseTarotInfo(witty_summary)
                      /\ UNCHANGED result
    /\ UNCHANGED <<n, has_conversations, openai_key, google_key, embedded, k_topics, k_stream, kmeans_calls,
                   witty_summary, tarot>>
    /\ UNCHANGED NotRunVars

\* k_stream and the trend KMeans fit; the stream_cluster of every record and
\* _gather_cluster_examples follow it.
ClusterStream ==
    /\ rpc = "cluster_stream"
    /\ k_stream' = KStream(n)
    /\ kmeans_calls' = Append(kmeans_calls, [k |-> k_stream', n |-> n])
    /\ IF KMeansFits(k_stream', n)
       THEN /\ rpc' = "label_stream"
            /\ UNCHANGED result
       ELSE /\ rpc' = "returned"
            /\ result' = ExceptionResult("n_samples should be >= n_clusters")
    /\ UNCHANGED <<n, has_conversations, openai_key, google_key, embedded, k_topics, calls_log,
                   soft_failures, witty_summary, image_written>>
    /\ UNCHANGED <<tarot_info, tarot>>
    /\ UNCHANGED NotRunVars

\* _generate_stream_labels, then _build_streamgraph and the return of run
LabelStream ==
    /\ rpc = "label_stream"
    /\ \E out \in {"raises", "malformed", "labels"} :
          LET r == GenerateStreamLabels(out)
          IN  /\ soft_failures' = IF out = "labels" THEN soft_failures
                                  ELSE soft_failures \cup {"stream_labels"}
              /\ IF r.raised
                 THEN /\ result' = ExceptionResult("label call failed")
                      /\ UNCHANGED tarot
                 ELSE /\ result' = RunResult
                      /\ tarot' = TarotValue(tarot_info)
    /\ rpc' = "returned"
    /\ calls_log' = Append(calls_log, "stream_labels")
    /\ UNCHANGED <<n, has_conversations, openai_key, google_key, embedded, k_topics, k_stream, kmeans_calls,
                   witty_summary, image_written, tarot_info>>
    /\ UNCHANGED NotRunVars

RunNext ==
    \/ MissingKey
    \/ NoRecords
    \/ ExtractRecordsRaises
    \/ ExtractRecords
    \/ EmbedBatch
    \/ EmbedBatchRaises
    \/ ClusterTopics
    \/ LabelTopics
    \/ WittySummary
    \/ TarotImage
    \/ ClusterStream
    \/ LabelStream

-----------------------------------------------------------------------------
(* Resolution planner alone: the two cluster counts of every corpus size *)

MaxPlanCorpus == 2600

PlanInit ==
    /\ rpc = "plan"
    /\ n \in 0..MaxPlanCorpus
    /\ has_conversations = TRUE
    /\ openai_key = TRUE
    /\ google_key = TRUE
    /\ embedded = n
    /\ k_topics = 0
    /\ k_stream = 0
    /\ kmeans_calls = <<>>
    /\ calls_log = <<>>
    /\ soft_failures = {}
    /\ witty_summary = ""
    /\ image_written = FALSE
    /\ result = NoResult
    /\ tarot_info = EmptyDict
    /\ tarot = EmptyDict

PlanTopics ==
    /\ rpc = "plan"
    /\ k_topics = 0
    /\ k_topics' = KTopics(n)
    /\ UNCHANGED <<rpc, n, has_conversations, openai_key, google_key, embedded, k_stream, kmeans_calls,
                   calls_log, soft_failures, witty_summary, image_written, result>>
    /\ UNCHANGED <<tarot_info, tarot>>
    /\ UNCHANGED NotRunVars

PlanStream ==
    /\ rpc = "plan"
    /\ k_stream = 0
    /\ k_stream' = KStream(n)
    /\ UNCHANGED <<rpc, n, has_conversations, openai_key, google_key, embedded, k_topics, kmeans_calls,
                   calls_log, soft_failures, witty_summary, image_written, result>>
    /\ UNCHANGED <<tarot_info, tarot>>
    /\ UNCHANGED NotRunVars

PlanNext == PlanTopics \/ PlanStream

-----------------------------------------------------------------------------
(* Representative sampling: the loop body of _build_cluster_summaries       *)
(* (catalog) and of _gather_cluster_examples (trend) for one cluster        *)

MaxMembers == 40

\* seq[a:b] of Python, for 0 <= a and 0 <= b
Slice(seq, a, b) == SubSeq(seq, a + 1, Min(b, Len(seq)))

\* seq[-count:] of Python, for count > 0
LastItems(seq, count) == SubSeq(seq, Max(Len(seq) - count, 0) + 1, Len(seq))

\* The record indices of the cluster, in record order (idxs)
Members(m) == [j \in 1..m |-> 2 * (j - 1)]

\* The distance of the cluster's j-th record to the centroid.  The strides
\* used give pairwise different distances to up to 60 members.
Dist(j, stride) == (j * stride) % 61

\* sorted by ascending distance, equal distances in their given order
RECURSIVE InsertByDist(_, _)
InsertByDist(sorted, item) ==
    IF Len(sorted) = 0 THEN <<item>>
    ELSE IF sorted[Len(sorted)][1] <= item[1] THEN Append(sorted, item)
    ELSE Append(InsertByDist(SubSeq(sorted, 1, Len(sorted) - 1), item), sorted[Len(sorted)])

RECURSIVE SortPrefixByDist(_, _)
SortPrefixByDist(items, count) ==
    IF count = 0 THEN <<>>
    ELSE InsertByDist(SortPrefixByDist(items, count - 1), items[count])

\* members[np.argsort(dists)], and items.sort(key=lambda x: x[0])
SortedByDist(m, stride) ==
    LET items == [j \in 1..m |-> <<Dist(j, stride), Members(m)[j]>>]
        sorted == SortPrefixByDist(items, m)
    IN  [p \in 1..m |-> sorted[p][2]]

\* the catalog sample with a far window that stops one short of the end:
\* sorted_by_dist[-5:-1]
CatalogSampleFarShort(sorted) ==
    IF Len(sorted) >= 12
    THEN Slice(sorted, 0, 4)
            \o Slice(sorted, Len(sorted) \div 3, Len(sorted) \div 3 + 4)
            \o Slice(sorted, Len(sorted) - 5, Len(sorted) - 1)
    ELSE Slice(sorted, 0, Min(12, Len(sorted)))

\* sample_indices of _build_cluster_summaries
CatalogSample(sorted) ==
    IF Len(sorted) >= 12
    THEN Slice(sorted, 0, 4)
            \o Slice(sorted, Len(sorted) \div 3, Len(sorted) \div 3 + 4)
            \o LastItems(sorted, 4)
    ELSE Slice(sorted, 0, Min(12, Len(sorted)))

\* the trend sample with a middle window that starts at n_items // 4
TrendSampleMidQuarter(sorted) ==
    IF Len(sorted) >= 15
    THEN Slice(sorted, 0, 5)
            \o Slice(sorted, Len(sorted) \div 4, Len(sorted) \div 4 + 5)
            \o LastItems(sorted, 5)
    ELSE sorted

\* sampled of _gather_cluster_examples
TrendSample(sorted) ==
    IF Len(sorted) >= 15
    THEN Slice(sorted, 0, 5)
            \o Slice(sorted, Len(sorted) \div 3, Len(sorted) \div 3 + 5)
            \o LastItems(sorted, 5)
    ELSE sorted

SampleInit ==
    /\ spc = "start"
    /\ resolution \in {"catalog", "trend"}
    /\ n_members \in 1..MaxMembers
    /\ dist_stride \in {1, 7, 60}
    /\ sorted_by_dist = <<>>
    /\ sample_indices = <<>>
    /\ examples = <<>>

SortMembers ==
    /\ spc = "start"
    /\ sorted_by_dist' = SortedByDist(n_members, dist_stride)
    /\ spc' = "sorted"
    /\ UNCHANGED <<resolution, n_members, dist_stride, sample_indices, examples>>
    /\ UNCHANGED NotSampleVars

SampleCatalog ==
    /\ spc = "sorted"
    /\ resolution = "catalog"
    /\ sample_indices' = CatalogSample(sorted_by_dist)
    /\ spc' = "sampled"
    /\ UNCHANGED <<resolution, n_members, dist_stride, sorted_by_dist, examples>>
    /\ UNCHANGED NotSampleVars

SampleTrend ==
    /\ spc = "sorted"
    /\ resolution = "trend"
    /\ sample_indices' = TrendSample(sorted_by_dist)
    /\ spc' = "sampled"
    /\ UNCHANGED <<resolution, n_members, dist_stride, sorted_by_dist, examples>>
    /\ UNCHANGED NotSampleVars

\* cs["representatives"][:10] of _generate_cluster_labels
CatalogLineCap == 10

\* examples[cluster_id][:12] of _generate_stream_labels and of
\* TopicStreamStrategy._generate_labels_batch
TrendLineCap == 12

\* The records whose text is joined into the digest line of the cluster.  A
\* record's text on the line is a prefix of its question (_summarize_question,
\* q[:80]); the record stands for it.
DigestLine(sampled, cap) == Slice(sampled, 0, cap)

\* descriptions.append(...) of _generate_cluster_labels for the cluster
DescribeCatalog ==
    /\ spc = "sampled"
    /\ resolution = "catalog"
    /\ examples' = DigestLine(sample_indices, CatalogLineCap)
    /\ spc' = "described"
    /\ UNCHANGED <<resolution, n_members, dist_stride, sorted_by_dist, sample_indices>>
    /\ UNCHANGED NotSampleVars

\* lines.append(...) of _generate_stream_labels for the cluster
DescribeTrend ==
    /\ spc = "sampled"
    /\ resolution = "trend"
    /\ examples' = DigestLine(sample_indices, TrendLineCap)
    /\ spc' = "described"
    /\ UNCHANGED <<resolution, n_members, dist_stride, sorted_by_dist, sample_indices>>
    /\ UNCHANGED NotSampleVars

SampleNext ==
    SortMembers \/ SampleCatalog \/ SampleTrend \/ DescribeCatalog \/ DescribeTrend

-----------------------------------------------------------------------------
(* TopicsStrategy._build_streamgraph, on records whose period key          *)
(* _extract_records computed                                                *)

PERIOD_WEEKS == 2
MaxRecords == 3

\* the stream_cluster values of the records
StreamClusterIds == {0, 1}

\* period_key of _extract_records, current_period of _build_streamgraph
PeriodKey(iso_year, iso_week) ==
    IntToStr(iso_year) \o "-P" \o ZeroPad2((iso_week - 1) \div PERIOD_WEEKS)

\* ISO (year, week) of the records' timestamps: the end of ISO year 2026,
\* which has 53 weeks, and the start of 2027
RecordWeeks == {<<2026, 52>>, <<2026, 53>>, <<2027, 1>>, <<2027, 3>>}

\* ISO (year, week) of datetime.now()
NowWeeks == {<<2026, 53>>, <<2027, 1>>, <<2027, 2>>, <<2027, 3>>, <<2027, 5>>}

Record(iso, cluster) ==
    [iso |-> iso, period |-> PeriodKey(iso[1], iso[2]), stream_cluster |-> cluster]

RecordUniverse ==
    {Record(iso, c) : iso \in RecordWeeks, c \in StreamClusterIds}

\* The label maps _generate_stream_labels can hand over: different labels,
\* the same label for two clusters, and a label spelled like the row's
\* "period" field; clusters past the first two get the default.
LabelMaps ==
    {[c \in StreamClusterIds |->
        IF c = 0 THEN first ELSE IF c = 1 THEN second ELSE DefaultLabel] :
        first \in {"Code Therapy", DefaultLabel, "period"}, second \in {DefaultLabel}}

\* the filter with <= in place of <: [p for p in periods if p <= current_period]
RECURSIVE KeepThrough(_, _)
KeepThrough(seq, current_period) ==
    IF Len(seq) = 0 THEN <<>>
    ELSE IF ~StrLess(current_period, seq[1])
    THEN <<seq[1]>> \o KeepThrough(Tail(seq), current_period)
    ELSE KeepThrough(Tail(seq), current_period)

\* the filter that drops the last period whatever now is: periods[:-1]
KeepAllButLast(seq, current_period) == SubSeq(seq, 1, Len(seq) - 1)

\* sorted(set(r["period"] for r in records)), then [p for p in periods if p < current_period]
RECURSIVE KeepBefore(_, _)
KeepBefore(seq, current_period) ==
    IF Len(seq) = 0 THEN <<>>
    ELSE IF StrLess(seq[1], current_period)
    THEN <<seq[1]>> \o KeepBefore(Tail(seq), current_period)
    ELSE KeepBefore(Tail(seq), current_period)

\* the periods with no filter applied
AllPeriods(recs, current_period) ==
    SortedStrings({recs[i].period : i \in 1..Len(recs)})

ClosedPeriods(recs, current_period) ==
    KeepBefore(SortedStrings({recs[i].period : i \in 1..Len(recs)}), current_period)

InSeq(x, seq) == \E i \in 1..Len(seq) : seq[i] = x

\* period_topic_counts: the counts of the records whose period is kept;
\* a key read and never written counts 0 (defaultdict)
PeriodTopicCount(recs, kept, period, cluster) ==
    Cardinality({i \in 1..Len(recs) :
        /\ InSeq(recs[i].period, kept)
        /\ recs[i].period = period
        /\ recs[i].stream_cluster = cluster})

\* topic_totals[t]: one per record of the cluster
TopicTotal(recs, cluster) ==
    Cardinality({i \in 1..Len(recs) : recs[i].stream_cluster = cluster})

\* topic_totals.keys(): the clusters in the order the records first name them
RECURSIVE FirstSeen(_, _)
FirstSeen(recs, upto) ==
    IF upto = 0 THEN <<>>
    ELSE LET before == FirstSeen(recs, upto - 1)
         IN  IF InSeq(recs[upto].stream_cluster, before) THEN before
             ELSE Append(before, recs[upto].stream_cluster)

\* an insertion that puts a topic before the topics of the same total
RECURSIVE InsertBeforeEqual(_, _, _)
InsertBeforeEqual(sorted, t, recs) ==
    IF Len(sorted) = 0 THEN <<t>>
    ELSE IF TopicTotal(recs, sorted[Len(sorted)]) > TopicTotal(recs, t)
    THEN Append(sorted, t)
    ELSE Append(InsertBeforeEqual(SubSeq(sorted, 1, Len(sorted) - 1), t, recs),
                sorted[Len(sorted)])

\* sorted(keys, key=lambda t: -topic_totals[t]): stable, so equal totals
\* keep the order of the keys
RECURSIVE InsertByTotal(_, _, _)
InsertByTotal(sorted, t, recs) ==
    IF Len(sorted) = 0 THEN <<t>>
    ELSE IF TopicTotal(recs, sorted[Len(sorted)]) >= TopicTotal(recs, t)
    THEN Append(sorted, t)
    ELSE Append(InsertByTotal(SubSeq(sorted, 1, Len(sorted) - 1), t, recs),
                sorted[Len(sorted)])

RECURSIVE SortPrefixByTotal(_, _, _)
SortPrefixByTotal(ts, count, recs) ==
    IF count = 0 THEN <<>>
    ELSE InsertByTotal(SortPrefixByTotal(ts, count - 1, recs), ts[count], recs)

SortedTopics(recs) ==
    SortPrefixByTotal(FirstSeen(recs, Len(recs)), Len(FirstSeen(recs, Len(recs))), recs)

\* A row is a dict in insertion order: a sequence of <<key, value>>;
\* row[key] = value overwrites the value of a key the row holds.
RowSet(row, key, value) ==
    IF \E i \in 1..Len(row) : row[i][1] = key
    THEN [i \in 1..Len(row) |-> IF row[i][1] = key THEN <<key, value>> ELSE row[i]]
    ELSE Append(row, <<key, value>>)

\* the row of one period: {"period": period}, then row[label] = count per topic
RECURSIVE FillRow(_, _, _, _, _, _)
FillRow(row, topics, upto, period, counts, label_map) ==
    IF upto = 0 THEN row
    ELSE RowSet(FillRow(row, topics, upto - 1, period, counts, label_map),
                Get(label_map, topics[upto], DefaultLabel),
                counts[period][topics[upto]])

BuildRow(period, topics, counts, label_map) ==
    FillRow(<<(<<"period", period>>)>>, topics, Len(topics), period, counts, label_map)

StreamInit ==
    /\ gpc = "start"
    /\ records \in SeqsUpTo(RecordUniverse, MaxRecords)
    /\ now_iso = <<0, 0>>
    /\ topic_labels = EmptyDict
    /\ periods = <<>>
    /\ period_topic_counts = EmptyDict
    /\ sorted_topics = <<>>
    /\ keys = <<>>
    /\ values = <<>>

\* periods and current_period: datetime.now() is read here
ComputePeriods ==
    /\ gpc = "start"
    /\ \E now \in NowWeeks :
          /\ now_iso' = now
          /\ periods' = ClosedPeriods(records, PeriodKey(now[1], now[2]))
    /\ gpc' = "count"
    /\ UNCHANGED <<records, topic_labels, period_topic_counts, sorted_topics, keys, values>>
    /\ UNCHANGED NotStreamVars

\* the loop that counts per period per topic
CountPerPeriod ==
    /\ gpc = "count"
    /\ period_topic_counts' =
          [p \in {periods[i] : i \in 1..Len(periods)} |->
              [t \in StreamClusterIds |-> PeriodTopicCount(records, periods, p, t)]]
    /\ gpc' = "sort"
    /\ UNCHANGED <<records, now_iso, topic_labels, periods, sorted_topics, keys, values>>
    /\ UNCHANGED NotStreamVars

\* topic_totals and sorted_topics
SortTopics ==
    /\ gpc = "sort"
    /\ sorted_topics' = SortedTopics(records)
    /\ gpc' = "build"
    /\ UNCHANGED <<records, now_iso, topic_labels, periods, period_topic_counts, keys, values>>
    /\ UNCHANGED NotStreamVars

\* keys and values, and the return
BuildOutput ==
    /\ gpc = "build"
    /\ \E label_map \in LabelMaps :
          /\ topic_labels' = label_map
          /\ keys' = [j \in 1..Len(sorted_topics) |->
                         Get(label_map, sorted_topics[j], DefaultLabel)]
          /\ values' = [i \in 1..Len(periods) |->
                         BuildRow(periods[i], sorted_topics, period_topic_counts, label_map)]
    /\ gpc' = "done"
    /\ UNCHANGED <<records, now_iso, periods, period_topic_counts, sorted_topics>>
    /\ UNCHANGED NotStreamVars

StreamNext == ComputePeriods \/ CountPerPeriod \/ SortTopics \/ BuildOutput

-----------------------------------------------------------------------------
(* Record extraction: TopicsStrategy._extract_records over the             *)
(* conversations, and TopicStreamStrategy._extract_first_user_message on   *)
(* one conversation                                                         *)

MaxNodes == 2
MaxConversations == 2

\* A part of a message's content: a string, or something that is not one
StrPart(t) == [is_str |-> TRUE, text |-> t]
NonStrPart == [is_str |-> FALSE, text |-> ""]

\* "create_time": null
NoneTime == -1

\* A node of the mapping: without a message, or with one.  create_time 0
\* stands for a message without the key, NoneTime for a null.
NoMessage ==
    [present |-> FALSE, role |-> "", hidden |-> FALSE, content_type |-> "",
     parts |-> <<>>, create_time |-> 0]

Message(role, hidden, content_type, parts, create_time) ==
    [present |-> TRUE, role |-> role, hidden |-> hidden, content_type |-> content_type,
     parts |-> parts, create_time |-> create_time]

\* datetime.fromtimestamp(t).isocalendar() of the timestamps used: noon UTC
\* of the Mondays 2026-12-21, 2026-12-28 and 2027-01-04
IsoCalendar ==
    (1797854400 :> <<2026, 52>>) @@ (1798459200 :> <<2026, 53>>)
        @@ (1799064000 :> <<2027, 1>>)

MessageUniverse ==
    {NoMessage,
     Message("user", FALSE, "text", <<StrPart("hi")>>, 1798459200),
     Message("user", FALSE, "text",
             <<StrPart("  Explain "), NonStrPart, StrPart("monads  ")>>, 1799064000),
     Message("user", FALSE, "text", <<StrPart("What is a closure?")>>, 1798459200),
     Message("assistant", FALSE, "text", <<StrPart("A closure captures variables.")>>,
             1797854400),
     Message("user", TRUE, "text", <<StrPart("hidden system nudge")>>, 1797854400),
     Message("user", FALSE, "user_editable_context", <<StrPart("I am a developer.")>>,
             1797854400),
     Message("user", FALSE, "text", <<StrPart("No timestamp on this one")>>, 0),
     Message("user", FALSE, "text", <<StrPart("Null timestamp here")>>, NoneTime),
     Message("user", FALSE, "text", <<StrPart("   ")>>, 1797854400)}

\* A conversation: its title ("" for none) and the messages of its mapping,
\* in the order of mapping.values()
ConversationUniverse ==
    {[title |-> t, mapping |-> m] :
        t \in {"", "Monads"}, m \in SeqsUpTo(MessageUniverse, MaxNodes)}

\* The conversations of one node at most
ShortConversations == {c \in ConversationUniverse : Len(c.mapping) <= 1}

\* The conversations a corpus is made of: any conversation when it is alone,
\* those of one node at most in a longer corpus
CorpusConversations(size) ==
    IF size = 1 THEN ConversationUniverse ELSE ShortConversations

\* "".join(p for p in parts if isinstance(p, str))
RECURSIVE JoinStrParts(_)
JoinStrParts(parts) ==
    IF Len(parts) = 0 THEN ""
    ELSE (IF parts[1].is_str THEN parts[1].text ELSE "") \o JoinStrParts(Tail(parts))

\* text of the loop body
MessageText(message) == Strip(JoinStrParts(message.parts))

\* The message passes the filters of the loop body.  _extract_records wants
\* more than 10 characters, _extract_first_user_message any text.  A null
\* create_time becomes 0 in _extract_records (create_time or 0).
Passes(message, which) ==
    /\ message.present
    /\ message.role = "user"
    /\ ~message.hidden
    /\ message.content_type # "user_editable_context"
    /\ MessageText(message) # ""
    /\ which = "records" => Len(MessageText(message)) > 10
    /\ message.create_time > 0

\* message.get("create_time", 0) > 0 of _extract_first_user_message compares
\* None with 0, which raises TypeError: on a message that reached the test
\* with a text
ComparesNone(message) ==
    /\ message.present
    /\ message.role = "user"
    /\ ~message.hidden
    /\ message.content_type # "user_editable_context"
    /\ MessageText(message) # ""
    /\ message.create_time = NoneTime

\* messages: the loop over mapping.values()
RECURSIVE CollectMessages(_, _, _)
CollectMessages(mapping, upto, which) ==
    IF upto = 0 THEN <<>>
    ELSE IF Passes(mapping[upto], which)
    THEN Append(CollectMessages(mapping, upto - 1, which),
                [time |-> mapping[upto].create_time, text |-> MessageText(mapping[upto])])
    ELSE CollectMessages(mapping, upto - 1, which)

\* messages.sort(key=lambda x: x["time"]): stable
RECURSIVE InsertByTime(_, _)
InsertByTime(sorted, item) ==
    IF Len(sorted) = 0 THEN <<item>>
    ELSE IF sorted[Len(sorted)].time <= item.time THEN Append(sorted, item)
    ELSE Append(InsertByTime(SubSeq(sorted, 1, Len(sorted) - 1), item), sorted[Len(sorted)])

RECURSIVE SortPrefixByTime(_, _)
SortPrefixByTime(items, count) ==
    IF count = 0 THEN <<>>
    ELSE InsertByTime(SortPrefixByTime(items, count - 1), items[count])

SortedByTime(messages) == SortPrefixByTime(messages, Len(messages))

\* the record of a message
RecordOf(title, message) ==
    [title |-> title,
     question |-> message.text,
     timestamp |-> message.time,
     period |-> PeriodKey(IsoCalendar[message.time][1], IsoCalendar[message.time][2])]

\* one record for every message that passes
RecordPerMessage(conversation) ==
    LET title == IF conversation.title = "" THEN "Untitled" ELSE conversation.title
        messages == CollectMessages(conversation.mapping, Len(conversation.mapping), "records")
    IN  [i \in 1..Len(messages) |-> RecordOf(title, SortedByTime(messages)[i])]

\* What one iteration of the loop of _extract_records appends to records
ConversationRecords(conversation) ==
    LET title == IF conversation.title = "" THEN "Untitled" ELSE conversation.title
        messages == CollectMessages(conversation.mapping, Len(conversation.mapping), "records")
    IN  IF Len(messages) = 0 THEN <<>>
        ELSE <<RecordOf(title, SortedByTime(messages)[1])>>

\* _extract_first_user_message(data) raises
FirstUserMessageRaises(conversation) ==
    \E i \in 1..Len(conversation.mapping) : ComparesNone(conversation.mapping[i])

\* _extract_first_user_message(data) when it returns: <<>> for None
FirstUserMessage(conversation) ==
    LET messages == CollectMessages(conversation.mapping, Len(conversation.mapping),
                                    "first_user_message")
    IN  IF Len(messages) = 0 THEN <<>>
        ELSE <<SortedByTime(messages)[1]>>

\* ConversationRecords of every conversation of the universe
RecordsOfUniverse == [conversation \in ConversationUniverse |-> ConversationRecords(conversation)]

\* _extract_records reads self.conversations, which the constructor does not
\* set; _extract_first_user_message reads its argument only.
ExtractInit ==
    /\ epc = "loop"
    /\ \/ /\ extractor = "records"
          /\ num_conversations \in 0..MaxConversations
          /\ conversations_set \in BOOLEAN
       \/ /\ extractor = "first_user_message"
          /\ num_conversations = 1
          /\ conversations_set = FALSE
    /\ conv_idx = 0
    /\ data = [title |-> "", mapping |-> <<>>]
    /\ extracted = <<>>
    /\ emitted_from = <<>>
    /\ first_msg = <<>>

\* "for data in self.conversations" on an object without the attribute:
\* AttributeError leaves _extract_records before any iteration
ExtractRaises ==
    /\ epc = "loop"
    /\ extractor = "records"
    /\ ~conversations_set
    /\ epc' = "raised"
    /\ UNCHANGED <<conversations_set, extractor, num_conversations, conv_idx, data, extracted,
                   emitted_from, first_msg>>
    /\ UNCHANGED NotExtractVars

\* One iteration of the loop over self.conversations
ExtractConversation ==
    /\ epc = "loop"
    /\ extractor = "records"
    /\ conversations_set
    /\ conv_idx < num_conversations
    /\ \E conversation \in CorpusConversations(num_conversations) :
          LET appended == RecordsOfUniverse[conversation]
          IN  /\ data' = conversation
              /\ extracted' = extracted \o appended
              /\ emitted_from' = emitted_from \o [i \in 1..Len(appended) |-> conv_idx + 1]
    /\ conv_idx' = conv_idx + 1
    /\ UNCHANGED <<epc, conversations_set, extractor, num_conversations, first_msg>>
    /\ UNCHANGED NotExtractVars

\* return records
ExtractReturn ==
    /\ epc = "loop"
    /\ extractor = "records"
    /\ conversations_set
    /\ conv_idx = num_conversations
    /\ epc' = "done"
    /\ UNCHANGED <<conversations_set, extractor, num_conversations, conv_idx, data, extracted,
                   emitted_from, first_msg>>
    /\ UNCHANGED NotExtractVars

\* _extract_first_user_message on one conversation
ExtractFirstUserMessage ==
    /\ epc = "loop"
    /\ extractor = "first_user_message"
    /\ \E conversation \in ConversationUniverse :
          /\ data' = conversation
          /\ IF FirstUserMessageRaises(conversation)
             THEN epc' = "raised" /\ first_msg' = <<>>
             ELSE epc' = "done" /\ first_msg' = FirstUserMessage(conversation)
    /\ conv_idx' = conv_idx + 1
    /\ UNCHANGED <<conversations_set, extractor, num_conversations, extracted, emitted_from>>
    /\ UNCHANGED NotExtractVars

ExtractNext ==
    ExtractRaises \/ ExtractConversation \/ ExtractReturn \/ ExtractFirstUserMessage

-----------------------------------------------------------------------------
(* Period keys: the key of a record's timestamp in _extract_records and    *)
(* the key of now in _build_streamgraph                                     *)

\* ISO weeks of a year, and the ISO years drawn
IsoWeeks == 1..53
KeyYears == {1999, 2000, 2026, 2027}
IsoDates == KeyYears \X IsoWeeks

\* (y1, w1) <= (y2, w2)
IsoLeq(a, b) == a[1] < b[1] \/ (a[1] = b[1] /\ a[2] <= b[2])

\* A record's date and a date of now that is not before it
KeyInit ==
    /\ kpc = "record"
    /\ record_iso \in IsoDates
    /\ current_iso \in IsoDates
    /\ IsoLeq(record_iso, current_iso)
    /\ period_key = ""
    /\ now_period = ""

\* period_key of _extract_records
RecordPeriodKey ==
    /\ kpc = "record"
    /\ period_key' = PeriodKey(record_iso[1], record_iso[2])
    /\ kpc' = "now"
    /\ UNCHANGED <<record_iso, current_iso, now_period>>
    /\ UNCHANGED NotKeyVars

\* current_period of _build_streamgraph
CurrentPeriodKey ==
    /\ kpc = "now"
    /\ now_period' = PeriodKey(current_iso[1], current_iso[2])
    /\ kpc' = "done"
    /\ UNCHANGED <<record_iso, current_iso, period_key>>
    /\ UNCHANGED NotKeyVars

KeyNext == RecordPeriodKey \/ CurrentPeriodKey

-----------------------------------------------------------------------------
(* The embedder: TopicsStrategy._get_embeddings, with the order in which   *)
(* the provider returns the items of a response                            *)

QuestionCap == 1200

\* Corpus sizes around the batch boundaries
EmbedSizes == {0, 1, 2, 3, 4, 99, 100, 101, 102, 199, 200, 201, 202}

\* Record i: its question is known by its position and its length; every
\* seventh question is longer than the cap
Question(i) == [id |-> i, length |-> IF i % 7 = 0 THEN QuestionCap + 300 ELSE 40]

\* r["question"][:1200]
Truncated(question) == [id |-> question.id, length |-> Min(question.length, QuestionCap)]

\* What the provider computes for one input text
EmbeddingOf(text) == [of |-> text.id, chars |-> text.length]

\* The orders in which the provider returns the items of a response
ResponseOrders == {"in_order", "reversed", "rotated", "first_two_swapped"}

\* Position in the input of the item returned at position j, of len items
ReturnedAt(order, len, j) ==
    IF order = "reversed" THEN len + 1 - j
    ELSE IF order = "rotated" THEN (j % len) + 1
    ELSE IF order = "first_two_swapped" /\ len >= 2 /\ j <= 2 THEN 3 - j
    ELSE j

\* resp.data: every item carries the index of its input and its embedding
ResponseData(batch, order) ==
    [j \in 1..Len(batch) |->
        [index |-> ReturnedAt(order, Len(batch), j) - 1,
         embedding |-> EmbeddingOf(batch[ReturnedAt(order, Len(batch), j)])]]

\* resp.data as it came
ProviderOrder(data_items) == data_items

\* sorted(resp.data, key=lambda d: d.index): the indices of a response are
\* 0..len-1, each once
SortedByIndex(data_items) ==
    [k \in 1..Len(data_items) |->
        data_items[CHOOSE j \in 1..Len(data_items) : data_items[j].index = k - 1]]

EmbedInit ==
    /\ mpc = "loop"
    /\ \E size \in EmbedSizes : questions = [i \in 1..size |-> Question(i)]
    /\ embeddings = <<>>
    /\ batches = <<>>
    /\ resp_data = <<>>
    /\ reordered = FALSE

\* client.embeddings.create on the next batch, and its response
EmbedRequest ==
    /\ mpc = "loop"
    /\ Len(batches) * BatchSize < Len(questions)
    /\ LET start == Len(batches) * BatchSize
           end == Min(start + BatchSize, Len(questions))
           batch == [i \in 1..(end - start) |-> Truncated(questions[start + i])]
       IN  /\ batches' = Append(batches, <<start, end>>)
           /\ \E order \in ResponseOrders : resp_data' = ResponseData(batch, order)
    /\ mpc' = "response"
    /\ UNCHANGED <<questions, embeddings, reordered>>
    /\ UNCHANGED NotEmbedVars

\* ordered = sorted(resp.data, ...); embeddings.extend(...)
EmbedExtend ==
    /\ mpc = "response"
    /\ LET ordered == SortedByIndex(resp_data)
       IN  /\ embeddings' = embeddings \o [i \in 1..Len(resp_data) |-> ordered[i].embedding]
           /\ reordered' = (reordered \/ \E i \in 1..Len(resp_data) : resp_data[i].index # i - 1)
    /\ resp_data' = <<>>
    /\ mpc' = "loop"
    /\ UNCHANGED <<questions, batches>>
    /\ UNCHANGED NotEmbedVars

\* return embeddings
EmbedReturn ==
    /\ mpc = "loop"
    /\ Len(batches) * BatchSize >= Len(questions)
    /\ mpc' = "done"
    /\ UNCHANGED <<questions, embeddings, batches, resp_data, reordered>>
    /\ UNCHANGED NotEmbedVars

EmbedNext == EmbedRequest \/ EmbedExtend \/ EmbedReturn

-----------------------------------------------------------------------------
(* The driver: main submits run_strategy for every strategy to a pool of   *)
(* six workers and collects the futures as they complete                   *)

max_workers == 6

\* The names discover_strategies finds in the strategies directory: the
\* classes of every module but base.py and the two of SKIP_STRATEGIES
StrategyModules ==
    {"api_key", "basic_counts", "conversation_durations", "emoji_stats",
     "first_conversation", "message_timing", "nutrition_label", "page_count",
     "response_lengths", "streaks", "swear_apology", "token_counts",
     "topic_clusters", "topic_stream", "topics"}

\* all_strategies.keys(): discover_strategies passes over a module whose
\* import fails.  check_dependencies has made sure of the packages of
\* REQUIRED_PACKAGES, so the imports that can fail are those of wordcloud
\* (swear_apology) and of matplotlib (message_timing, swear_apology,
\* topic_stream); scipy is imported inside the functions that use it.
DiscoveredSets ==
    {StrategyModules,
     StrategyModules \ {"swear_apology"},
     StrategyModules \ {"message_timing", "swear_apology", "topic_stream"}}

StrategySet == {strategy_names[i] : i \in 1..Len(strategy_names)}

\* load_conversations(path)
Corpus == <<"conversation 1", "conversation 2">>

\* The runs explored are those of at most this many discovered strategies:
\* the twelve found where matplotlib is not installed
MaxStrategies == 12

\* What a strategy does with the list run_strategy hands it as
\* conversations_dir, statement by statement: Strategy.__init__ keeps a
\* reference to it (base.py:16), so the strategy holds the list of main and
\* no copy; get_conversation_files reads its attribute glob (base.py:31),
\* topic_clusters and topic_stream its attribute parent before that, and the
\* read raises AttributeError.  api_key never reads it, and topics reads
\* self.conversations, which is no attribute of the object.
CorpusUses(name) ==
    IF name \in {"api_key", "topics"} THEN <<"keep_reference">>
    ELSE <<"keep_reference", "read_attribute">>

\* The list after a statement on a reference to it
ListAfter(use, list) ==
    IF use = "append" THEN Append(list, "conversation")
    ELSE IF use = "clear" THEN <<>>
    ELSE list

\* The list of main after the first upto statements of a strategy on it
RECURSIVE CorpusAfter(_, _, _)
CorpusAfter(uses, upto, list) ==
    IF upto = 0 THEN list ELSE ListAfter(uses[upto], CorpusAfter(uses, upto - 1, list))

\* How strategy.run() ends on the object run_strategy builds, which holds the
\* list of conversations as conversations_dir: api_key reads nothing and
\* returns its key; topics returns its empty result without OPENAI_API_KEY
\* and raises AttributeError at its read of self.conversations with it; every
\* other strategy raises AttributeError in get_conversation_files, a list
\* having no glob
StrategyOutcomes(name) ==
    IF name = "api_key" THEN {"returns"}
    ELSE IF name = "topics" THEN {"returns_error", "raises"}
    ELSE {"raises"}

\* run_strategy without its try/except: the exception leaves it
RunStrategyNoCatch(name, outcome) ==
    IF outcome \in {"raises", "raises_empty"} THEN Propagates
    ELSE IF outcome = "returns_error"
    THEN Value([name |-> name, result |-> EmptyResult("OPENAI_API_KEY not found"),
                error |-> "OPENAI_API_KEY not found"])
    ELSE Value([name |-> name, result |-> [keys |-> {"data"}, error |-> ""], error |-> ""])

\* run_strategy: (strategy_class.name, results, elapsed, error_msg); the
\* error_msg "" stands for None and for the str(e) of an exception raised
\* without a message, both of which main takes as no error
RunStrategy(name, outcome) ==
    IF outcome = "raises"
    THEN Value([name |-> name, result |-> ExceptionResult("strategy failed"),
                error |-> "strategy failed"])
    ELSE IF outcome = "raises_empty"
    THEN Value([name |-> name, result |-> ExceptionResult(""), error |-> ""])
    ELSE IF outcome = "returns_error"
    THEN Value([name |-> name, result |-> EmptyResult("OPENAI_API_KEY not found"),
                error |-> "OPENAI_API_KEY not found"])
    ELSE Value([name |-> name, result |-> [keys |-> {"data"}, error |-> ""], error |-> ""])

NumberOf(state) == Cardinality({name \in DOMAIN task : task[name] = state})

PoolInit ==
    /\ ppc = "submit"
    /\ strategy_names \in {SortedStrings(names) :
                               names \in {found \in DiscoveredSets :
                                             Cardinality(found) <= MaxStrategies}}
    /\ conversations = Corpus
    /\ task = EmptyDict
    /\ future = EmptyDict
    /\ status = [name \in StrategySet |-> "pending"]
    /\ results = EmptyDict

\* future = executor.submit(run_strategy, ...) for the next name: the task
\* is in the queue of the pool, where a worker can take it at once
Submit ==
    /\ ppc = "submit"
    /\ task' = Put(task, strategy_names[Cardinality(DOMAIN task) + 1], "queued")
    /\ ppc' = "submitted"
    /\ UNCHANGED <<strategy_names, conversations, future, status, results>>
    /\ UNCHANGED NotPoolVars

\* futures[future] = name; status[name] = "running", for the name just
\* submitted, and on to the next name or to the loop over as_completed
MarkRunning ==
    /\ ppc = "submitted"
    /\ status' = [status EXCEPT ![strategy_names[Cardinality(DOMAIN task)]] = "running"]
    /\ ppc' = IF Cardinality(DOMAIN task) = Len(strategy_names) THEN "collect" ELSE "submit"
    /\ UNCHANGED <<strategy_names, conversations, task, future, results>>
    /\ UNCHANGED NotPoolVars

\* A free worker takes the task that has waited longest
WorkerStarts ==
    /\ NumberOf("running") < max_workers
    /\ \E i \in 1..Len(strategy_names) :
          /\ strategy_names[i] \in DOMAIN task
          /\ task[strategy_names[i]] = "queued"
          /\ \A j \in 1..(i - 1) : task[strategy_names[j]] # "queued"
          /\ task' = [task EXCEPT ![strategy_names[i]] = "running"]
    /\ UNCHANGED <<strategy_names, ppc, conversations, future, status, results>>
    /\ UNCHANGED NotPoolVars

\* run_strategy of one strategy ends in its worker
StrategyEnds ==
    /\ \E name \in DOMAIN task :
          /\ task[name] = "running"
          /\ \E outcome \in StrategyOutcomes(name) :
                future' = Put(future, name, RunStrategy(name, outcome))
          /\ conversations' = CorpusAfter(CorpusUses(name), Len(CorpusUses(name)), conversations)
          /\ task' = [task EXCEPT ![name] = "finished"]
    /\ UNCHANGED <<strategy_names, ppc, status, results>>
    /\ UNCHANGED NotPoolVars

\* One iteration of the loop over as_completed(futures)
Collect ==
    /\ ppc = "collect"
    /\ \E name \in DOMAIN future :
          /\ task[name] = "finished"
          /\ task' = [task EXCEPT ![name] = "collected"]
          /\ IF future[name].raised
             THEN /\ ppc' = "raised"
                  /\ UNCHANGED <<status, results>>
             ELSE /\ results' = Put(results, future[name].value.name, future[name].value.result)
                  /\ status' = [status EXCEPT
                                   ![name] = IF future[name].value.error # "" THEN "error"
                                             ELSE "done"]
                  /\ UNCHANGED ppc
    /\ UNCHANGED <<strategy_names, conversations, future>>
    /\ UNCHANGED NotPoolVars

\* The loop over as_completed(futures) ends
CollectEnd ==
    /\ ppc = "collect"
    /\ \A name \in StrategySet : task[name] = "collected"
    /\ ppc' = "done"
    /\ UNCHANGED <<strategy_names, conversations, task, future, status, results>>
    /\ UNCHANGED NotPoolVars

PoolNext == Submit \/ MarkRunning \/ WorkerStarts \/ StrategyEnds \/ Collect \/ CollectEnd

-----------------------------------------------------------------------------
(* The catalog ranking: the grouping and the ranking of                    *)
(* _build_cluster_summaries, the topics list of run and the lines of       *)
(* _format_clusters_for_prompt                                              *)

TopN == 20
TopicsShown == 10
MaxAssigned == 4

\* The cluster of record i (from 0) of size records under a shape of
\* assignment to count clusters
Assigned(shape, i, size, count) ==
    IF shape = "round_robin" THEN i % count
    ELSE IF shape = "squares" THEN (i * i) % count
    ELSE (i * count) \div size

\* The assignments explored: every assignment of up to MaxAssigned records
\* to three clusters, and larger ones with up to 25 clusters
SmallAssignments == SeqsUpTo({0, 1, 2}, MaxAssigned) \ {<<>>}

ShapedAssignments ==
    {[i \in 1..size |-> Assigned(shape, i - 1, size, count)] :
        size \in {21, 30, 36}, count \in {10, 20, 21, 25},
        shape \in {"round_robin", "squares", "blocks"}}

\* 80 records in clusters of 49, 23 and 8 and of 51 and 29: shares that lie
\* half way between two tenths
HalfWayAssignments ==
    {[i \in 1..80 |-> IF i <= 49 THEN 0 ELSE IF i <= 72 THEN 1 ELSE 2],
     [i \in 1..80 |-> IF i <= 51 THEN 1 ELSE 0]}

\* The loop over enumerate(labels), after its first upto records: a cluster
\* enters the dict when its label is first met, and the indices (from 0) of
\* its records are appended as they come, so they ascend
FirstMet(labels_array, upto) ==
    {i \in 1..upto : \A j \in 1..(i - 1) : labels_array[j] # labels_array[i]}

RecordsOf(labels_array, upto, label) == {i \in 1..upto : labels_array[i] = label}

\* the place-th position of a set of positions, in ascending order
PositionAt(positions, place) ==
    CHOOSE i \in positions : Cardinality({j \in positions : j <= i}) = place

\* the grouping that forgets the record that opens a cluster
GroupDroppingFirst(labels_array, upto) ==
    [c \in 1..Cardinality(FirstMet(labels_array, upto)) |->
        LET label == labels_array[PositionAt(FirstMet(labels_array, upto), c)]
            members == RecordsOf(labels_array, upto, label)
        IN  <<label, [k \in 1..(Cardinality(members) - 1) |-> PositionAt(members, k + 1) - 1]>>]

\* clusters after the first upto records: <<label, idxs>> in the order the
\* labels are first met
GroupByCluster(labels_array, upto) ==
    [c \in 1..Cardinality(FirstMet(labels_array, upto)) |->
        LET label == labels_array[PositionAt(FirstMet(labels_array, upto), c)]
            members == RecordsOf(labels_array, upto, label)
        IN  <<label, [k \in 1..Cardinality(members) |-> PositionAt(members, k) - 1]>>]

\* sorted(..., key=len of the group, reverse=True): stable
RECURSIVE InsertBySize(_, _)
InsertBySize(sorted, item) ==
    IF Len(sorted) = 0 THEN <<item>>
    ELSE IF Len(sorted[Len(sorted)][2]) >= Len(item[2]) THEN Append(sorted, item)
    ELSE Append(InsertBySize(SubSeq(sorted, 1, Len(sorted) - 1), item), sorted[Len(sorted)])

RECURSIVE SortPrefixBySize(_, _)
SortPrefixBySize(items, count) ==
    IF count = 0 THEN <<>>
    ELSE InsertBySize(SortPrefixBySize(items, count - 1), items[count])

\* the groups left in insertion order
InsertionOrder(items) == items

ClustersSorted(items) == SortPrefixBySize(items, Len(items))

\* pct = size / n * 100 is computed in binary floating point (IEEE 754
\* doubles, 53 bits, results rounded to the nearest, a tie to the even), and
\* round(pct, 1) rounds the double it is given.  The operators below follow
\* the two roundings of the division and of the product with remainders
\* modulo n, which stay small.

\* the e with 2^e <= a / b < 2^(e + 1)
RECURSIVE ExponentAbove(_, _, _)
ExponentAbove(a, b, e) == IF a < 2 * b THEN e ELSE ExponentAbove(a, 2 * b, e + 1)

RECURSIVE ExponentBelow(_, _, _)
ExponentBelow(a, b, e) == IF a >= b THEN e ELSE ExponentBelow(2 * a, b, e - 1)

BinaryExponent(a, b) == IF a >= b THEN ExponentAbove(a, b, 0) ELSE ExponentBelow(a, b, 0)

RECURSIVE PowerOfTwo(_)
PowerOfTwo(k) == IF k = 0 THEN 1 ELSE 2 * PowerOfTwo(k - 1)

RECURSIVE PowerOfTwoModulo(_, _)
PowerOfTwoModulo(k, modulus) ==
    IF k = 0 THEN 1 % modulus ELSE (2 * PowerOfTwoModulo(k - 1, modulus)) % modulus

\* a / b scaled to a 53-bit mantissa, a / b * 2^(52 - e) with e the binary
\* exponent of a / b: <<the last bit of its whole part, b times its
\* fractional part>>
Mantissa(a, b) ==
    LET scaled == ((a % (2 * b)) * PowerOfTwoModulo(52 - BinaryExponent(a, b), 2 * b)) % (2 * b)
    IN  <<scaled \div b, scaled % b>>

\* size / n as a double, less the quotient, in units of the last place of
\* the double and times n: what the rounding of the division adds
DivisionError(size, size_n) ==
    LET last == Mantissa(size, size_n)
    IN  IF 2 * last[2] > size_n \/ (2 * last[2] = size_n /\ last[1] = 1)
        THEN size_n - last[2]
        ELSE 0 - last[2]

\* The double size / n * 100 compared with the number 100 * size / n: 1 when
\* the double is the larger, -1 when it is the smaller, 0 when they are equal
ProductAgainstExact(size, size_n) ==
    LET shift == BinaryExponent(100 * size, size_n) - BinaryExponent(size, size_n)
        exact == Mantissa(100 * size, size_n)
        unit == size_n * PowerOfTwo(shift)
        \* the product of the double size / n with 100, less the whole part
        \* of the scaled 100 * size / n, plus one: a multiple of 1 / unit
        above == exact[2] * PowerOfTwo(shift) + 100 * DivisionError(size, size_n) + unit
        whole == above \div unit
        rest == above % unit
        rounded == IF 2 * rest > unit \/ (2 * rest = unit /\ (exact[1] + whole + 1) % 2 = 1)
                   THEN whole + 1 ELSE whole
        against == (rounded - 1) * size_n - exact[2]
    IN  IF against > 0 THEN 1 ELSE IF against < 0 THEN 0 - 1 ELSE 0

\* round(pct, 1) in tenths, pct = <<size * 100, n>> standing for the double
\* size / n * 100: the tenth nearest to the double.  The double lies half way
\* between two tenths, or beside that point, only when 100 * size / n does;
\* then the side of the double decides, and the even tenth when the double
\* is that point itself.
RoundTenths(pct) ==
    LET size == pct[1] \div 100
        size_n == pct[2]
        tenth == (1000 * size) \div size_n
        half_way == (2000 * size) % size_n = 0 /\ ((2000 * size) \div size_n) % 2 = 1
    IN  IF size = 0 THEN 0
        ELSE IF ~half_way THEN (2000 * size + size_n) \div (2 * size_n)
        ELSE IF ProductAgainstExact(size, size_n) > 0 THEN tenth + 1
        ELSE IF ProductAgainstExact(size, size_n) < 0 THEN tenth
        ELSE IF tenth % 2 = 0 THEN tenth ELSE tenth + 1

\* summaries of _build_cluster_summaries; pct = size / n * 100 as a fraction
BuildClusterSummaries(groups, size_n, top_n) ==
    LET clusters_sorted == ClustersSorted(groups)
    IN  [rank \in 1..Min(top_n, Len(clusters_sorted)) |->
            [rank |-> rank,
             size |-> Len(clusters_sorted[rank][2]),
             pct |-> <<Len(clusters_sorted[rank][2]) * 100, size_n>>]]

\* topics_list of run
TopicsList(summaries, rank_labels) ==
    [i \in 1..Min(TopicsShown, Len(summaries)) |->
        [rank |-> summaries[i].rank,
         name |-> Get(rank_labels, summaries[i].rank, "Misc"),
         pct |-> RoundTenths(summaries[i].pct)]]

\* the lines of _format_clusters_for_prompt
FormatClustersForPrompt(summaries, rank_labels) ==
    [i \in 1..Len(summaries) |->
        IntToStr(summaries[i].rank) \o ") " \o Get(rank_labels, summaries[i].rank, "misc")
            \o " (" \o IntToStr(summaries[i].size) \o ")"]

\* What _generate_cluster_labels can hand over: nothing, or a label for
\* every rank but the first
RankLabels(summaries) ==
    {EmptyDict, [rank \in 2..Len(summaries) |-> "Label " \o IntToStr(rank)]}

RankInit ==
    /\ cpc = "group"
    /\ topics_labels \in SmallAssignments \cup ShapedAssignments \cup HalfWayAssignments
    /\ clusters = <<>>
    /\ cluster_summaries = <<>>
    /\ topic_cluster_labels = EmptyDict
    /\ topics_list = <<>>
    /\ cluster_list = <<>>

\* Group by cluster
GroupRecords ==
    /\ cpc = "group"
    /\ clusters' = GroupByCluster(topics_labels, Len(topics_labels))
    /\ cpc' = "rank"
    /\ UNCHANGED <<topics_labels, cluster_summaries, topic_cluster_labels, topics_list,
                   cluster_list>>
    /\ UNCHANGED NotRankVars

\* Sort by size, and the summaries of the top 20
RankClusters ==
    /\ cpc = "rank"
    /\ cluster_summaries' = BuildClusterSummaries(clusters, Len(topics_labels), TopN)
    /\ cpc' = "label"
    /\ UNCHANGED <<topics_labels, clusters, topic_cluster_labels, topics_list, cluster_list>>
    /\ UNCHANGED NotRankVars

\* _generate_cluster_labels, the topics list and the lines of the digest
BuildTopicsList ==
    /\ cpc = "label"
    /\ \E rank_labels \in RankLabels(cluster_summaries) :
          /\ topic_cluster_labels' = rank_labels
          /\ topics_list' = TopicsList(cluster_summaries, rank_labels)
          /\ cluster_list' = FormatClustersForPrompt(cluster_summaries, rank_labels)
    /\ cpc' = "done"
    /\ UNCHANGED <<topics_labels, clusters, cluster_summaries>>
    /\ UNCHANGED NotRankVars

RankNext == GroupRecords \/ RankClusters \/ BuildTopicsList

-----------------------------------------------------------------------------
(* merge_results, on the results dict the collection loop of main fills in  *)
(* completion order.  A dict is the sequence of its (key, value) items in   *)
(* insertion order.                                                         *)

\* the names merge_results has a branch for
MergedNames ==
    {"basic_counts", "first_conversation", "conversation_durations",
     "response_lengths", "streaks", "token_counts", "page_count",
     "nutrition_label", "message_timing", "topics", "swear_apology",
     "emoji_stats", "api_key"}

\* discovered strategies merge_results has no branch for
UnmergedNames == {"topic_clusters", "topic_stream"}

\* The sets of strategies of a run: every pair of strategies, and the
\* strategies that write the shared "perspective" section with two others
StrategySets ==
    {names \in SUBSET (MergedNames \cup UnmergedNames) : Cardinality(names) = 2}
        \cup {{"token_counts", "page_count", "topics", "api_key"}}

\* key in d
DictHas(items, key) == \E i \in 1..Len(items) : items[i][1] = key

\* d.get(key, default)
DictGet(items, key, default) ==
    IF DictHas(items, key)
    THEN items[CHOOSE i \in 1..Len(items) : items[i][1] = key][2]
    ELSE default

\* d.update(other): a key of d keeps its place, a new key goes to the end
RECURSIVE DictUpdate(_, _, _)
DictUpdate(items, other, upto) ==
    IF upto = 0 THEN items
    ELSE RowSet(DictUpdate(items, other, upto - 1), other[upto][1], other[upto][2])

\* How a strategy can have ended: its run returned its data, its run raised
\* ("error"), or, for topics, its run returned its empty result
HowEnded(name) ==
    IF name = "topics" THEN {"returns", "returns_error", "error"} ELSE {"returns", "error"}

\* What run_strategy hands over for the strategy: {"error": str(e)} when its
\* run raised, the _empty_result of topics, or the dict its run returned.
\* The values stand for what was computed.
ResultOf(name, how) ==
    IF how = "error" THEN <<(<<"error", "failed">>)>>
    ELSE IF how = "returns_error"
    THEN << <<"error", "OPENAI_API_KEY not found">>, <<"topics", <<>> >>, <<"tarot", <<>> >>,
            <<"streamgraph", << <<"periods", <<>> >>, <<"keys", <<>> >>, <<"values", <<>> >> >> >> >>
    ELSE IF name = "token_counts"
    THEN << <<"total_tokens", "n">>, <<"user_tokens", "n">>, <<"assistant_tokens", "n">>,
            <<"conversations_processed", "n">>, <<"avg_tokens_per_conversation", "n">>,
            <<"total_kwh", "n">>, <<"total_water_liters", "n">> >>
    ELSE IF name = "page_count"
    THEN << <<"total_characters", "n">>, <<"total_lines", "n">>, <<"total_words", "n">>,
            <<"estimated_pages", "n">> >>
    ELSE IF name = "topics"
    THEN << <<"topics", <<"Code Therapy">> >>, <<"tarot", <<(<<"card", "The Debugger">>)>> >>,
            <<"streamgraph", <<(<<"periods", "2026-P25">>)>> >> >>
    ELSE IF name = "api_key" THEN <<(<<"key", "sk-key">>)>>
    ELSE <<(<<"computed_by", name>>)>>

\* data of merge_results before its loop
DefaultData ==
    [static |-> [firstConversation |-> <<>>, overview |-> <<>>,
                 longestConversation |-> <<>>, longestMessage |-> <<>>,
                 streak |-> <<>>, perspective |-> <<>>, nutrition |-> <<>>],
     topics |-> <<>>, charts |-> <<>>, streamgraph |-> <<>>, frustration |-> <<>>,
     emojis |-> <<>>, tarot |-> <<>>, apiKey |-> ""]

\* the loop body with data["static"]["perspective"] = result in the place of
\* the two updates
MergeOneAssigning(merged, name, res) ==
    IF DictHas(res, "error") /\ name # "topics" THEN merged
    ELSE IF name = "basic_counts" THEN [merged EXCEPT !.static.overview = res]
    ELSE IF name = "first_conversation"
    THEN [merged EXCEPT !.static.firstConversation = res]
    ELSE IF name = "conversation_durations"
    THEN [merged EXCEPT !.static.longestConversation = res]
    ELSE IF name = "response_lengths" THEN [merged EXCEPT !.static.longestMessage = res]
    ELSE IF name = "streaks" THEN [merged EXCEPT !.static.streak = res]
    ELSE IF name = "token_counts" THEN [merged EXCEPT !.static.perspective = res]
    ELSE IF name = "page_count" THEN [merged EXCEPT !.static.perspective = res]
    ELSE IF name = "nutrition_label" THEN [merged EXCEPT !.static.nutrition = res]
    ELSE IF name = "message_timing" THEN [merged EXCEPT !.charts = res]
    ELSE IF name = "topics"
    THEN [merged EXCEPT !.topics = DictGet(res, "topics", <<>>),
                        !.tarot = DictGet(res, "tarot", <<>>),
                        !.streamgraph = DictGet(res, "streamgraph", <<>>)]
    ELSE IF name = "swear_apology" THEN [merged EXCEPT !.frustration = res]
    ELSE IF name = "emoji_stats" THEN [merged EXCEPT !.emojis = res]
    ELSE IF name = "api_key" THEN [merged EXCEPT !.apiKey = DictGet(res, "key", "")]
    ELSE merged

\* the body of the loop of merge_results for one item of all_results
MergeOne(merged, name, res) ==
    IF DictHas(res, "error") /\ name # "topics" THEN merged
    ELSE IF name = "basic_counts" THEN [merged EXCEPT !.static.overview = res]
    ELSE IF name = "first_conversation"
    THEN [merged EXCEPT !.static.firstConversation = res]
    ELSE IF name = "conversation_durations"
    THEN [merged EXCEPT !.static.longestConversation = res]
    ELSE IF name = "response_lengths" THEN [merged EXCEPT !.static.longestMessage = res]
    ELSE IF name = "streaks" THEN [merged EXCEPT !.static.streak = res]
    ELSE IF name = "token_counts"
    THEN [merged EXCEPT !.static.perspective = DictUpdate(@, res, Len(res))]
    ELSE IF name = "page_count"
    THEN [merged EXCEPT !.static.perspective = DictUpdate(@, res, Len(res))]
    ELSE IF name = "nutrition_label" THEN [merged EXCEPT !.static.nutrition = res]
    ELSE IF name = "message_timing" THEN [merged EXCEPT !.charts = res]
    ELSE IF name = "topics"
    THEN [merged EXCEPT !.topics = DictGet(res, "topics", <<>>),
                        !.tarot = DictGet(res, "tarot", <<>>),
                        !.streamgraph = DictGet(res, "streamgraph", <<>>)]
    ELSE IF name = "swear_apology" THEN [merged EXCEPT !.frustration = res]
    ELSE IF name = "emoji_stats" THEN [merged EXCEPT !.emojis = res]
    ELSE IF name = "api_key" THEN [merged EXCEPT !.apiKey = DictGet(res, "key", "")]
    ELSE merged

\* merge_results(all_results), over the first upto items
RECURSIVE MergeResults(_, _)
MergeResults(items, upto) ==
    IF upto = 0 THEN DefaultData
    ELSE MergeOne(MergeResults(items, upto - 1), items[upto][1], items[upto][2])

MergeInit ==
    /\ dpc = "collect"
    /\ \E names \in StrategySets :
          ran \in {how \in [names -> {"returns", "returns_error", "error"}] :
                      \A name \in names : how[name] \in HowEnded(name)}
    /\ all_results = <<>>
    /\ site_data = <<>>

\* One iteration of the loop over as_completed(futures): any strategy not yet
\* collected may be the next to complete; results[strategy_name] = result.
CollectResult ==
    /\ dpc = "collect"
    /\ \E name \in DOMAIN ran :
          /\ ~DictHas(all_results, name)
          /\ all_results' = Append(all_results, <<name, ResultOf(name, ran[name])>>)
    /\ UNCHANGED <<dpc, ran, site_data>>
    /\ UNCHANGED NotMergeVars

\* Every future is collected: the with block is left.
CollectOver ==
    /\ dpc = "collect"
    /\ Len(all_results) = Cardinality(DOMAIN ran)
    /\ dpc' = "merge"
    /\ UNCHANGED <<ran, all_results, site_data>>
    /\ UNCHANGED NotMergeVars

\* data = merge_results(results); json.dump(data, f)
WriteData ==
    /\ dpc = "merge"
    /\ site_data' = MergeResults(all_results, Len(all_results))
    /\ dpc' = "written"
    /\ UNCHANGED <<ran, all_results>>
    /\ UNCHANGED NotMergeVars

MergeNext == CollectResult \/ CollectOver \/ WriteData

-----------------------------------------------------------------------------
(* Specifications: one per part of the program; the variables of the other  *)
(* parts stay at their idle values.                                         *)

LabelIdle ==
    /\ labeler = "labels_batch"
    /\ example_keys = <<>>
    /\ lpc = "idle"
    /\ raw_response = ""
    /\ lines = <<>>
    /\ line_idx = 0
    /\ labels = EmptyDict
    /\ raw_labels = EmptyDict
    /\ regen_log = <<>>
    /\ oracle_calls = 0
    /\ lresult = EmptyDict

RunIdle ==
    /\ rpc = "idle"
    /\ n = 0
    /\ has_conversations = FALSE
    /\ openai_key = FALSE
    /\ google_key = FALSE
    /\ embedded = 0
    /\ k_topics = 0
    /\ k_stream = 0
    /\ kmeans_calls = <<>>
    /\ calls_log = <<>>
    /\ soft_failures = {}
    /\ witty_summary = ""
    /\ image_written = FALSE
    /\ result = NoResult
    /\ tarot_info = EmptyDict
    /\ tarot = EmptyDict

SampleIdle ==
    /\ spc = "idle"
    /\ resolution = "catalog"
    /\ n_members = 0
    /\ dist_stride = 1
    /\ sorted_by_dist = <<>>
    /\ sample_indices = <<>>
    /\ examples = <<>>

StreamIdle ==
    /\ gpc = "idle"
    /\ records = <<>>
    /\ now_iso = <<0, 0>>
    /\ topic_labels = EmptyDict
    /\ periods = <<>>
    /\ period_topic_counts = EmptyDict
    /\ sorted_topics = <<>>
    /\ keys = <<>>
    /\ values = <<>>

ExtractIdle ==
    /\ epc = "idle"
    /\ conversations_set = FALSE
    /\ extractor = "records"
    /\ num_conversations = 0
    /\ conv_idx = 0
    /\ data = [title |-> "", mapping |-> <<>>]
    /\ extracted = <<>>
    /\ emitted_from = <<>>
    /\ first_msg = <<>>

KeyIdle ==
    /\ kpc = "idle"
    /\ record_iso = <<0, 0>>
    /\ current_iso = <<0, 0>>
    /\ period_key = ""
    /\ now_period = ""

EmbedIdle ==
    /\ mpc = "idle"
    /\ questions = <<>>
    /\ embeddings = <<>>
    /\ batches = <<>>
    /\ resp_data = <<>>
    /\ reordered = FALSE

PoolIdle ==
    /\ ppc = "idle"
    /\ strategy_names = <<>>
    /\ conversations = <<>>
    /\ task = EmptyDict
    /\ future = EmptyDict
    /\ status = EmptyDict
    /\ results = EmptyDict

RankIdle ==
    /\ cpc = "idle"
    /\ topics_labels = <<>>
    /\ clusters = <<>>
    /\ cluster_summaries = <<>>
    /\ topic_cluster_labels = EmptyDict
    /\ topics_list = <<>>
    /\ cluster_list = <<>>

MergeIdle ==
    /\ dpc = "idle"
    /\ ran = EmptyDict
    /\ all_results = <<>>
    /\ site_data = <<>>

InitLabel == LabelInit /\ RunIdle /\ SampleIdle /\ StreamIdle /\ ExtractIdle /\ KeyIdle /\ EmbedIdle /\ PoolIdle /\ RankIdle /\ MergeIdle
SpecLabel == InitLabel /\ [][LabelNext]_vars

InitRun == RunInit /\ LabelIdle /\ SampleIdle /\ StreamIdle /\ ExtractIdle /\ KeyIdle /\ EmbedIdle /\ PoolIdle /\ RankIdle /\ MergeIdle
SpecRun == InitRun /\ [][RunNext]_vars

InitPlan == PlanInit /\ LabelIdle /\ SampleIdle /\ StreamIdle /\ ExtractIdle /\ KeyIdle /\ EmbedIdle /\ PoolIdle /\ RankIdle /\ MergeIdle
SpecPlan == InitPlan /\ [][PlanNext]_vars

InitSample == SampleInit /\ LabelIdle /\ RunIdle /\ StreamIdle /\ ExtractIdle /\ KeyIdle /\ EmbedIdle /\ PoolIdle /\ RankIdle /\ MergeIdle
SpecSample == InitSample /\ [][SampleNext]_vars

InitStream == StreamInit /\ LabelIdle /\ RunIdle /\ SampleIdle /\ ExtractIdle /\ KeyIdle /\ EmbedIdle /\ PoolIdle /\ RankIdle /\ MergeIdle
SpecStream == InitStream /\ [][StreamNext]_vars

InitExtract == ExtractInit /\ LabelIdle /\ RunIdle /\ SampleIdle /\ StreamIdle /\ KeyIdle /\ EmbedIdle /\ PoolIdle /\ RankIdle /\ MergeIdle
SpecExtract == InitExtract /\ [][ExtractNext]_vars

InitKey ==
    KeyInit /\ LabelIdle /\ RunIdle /\ SampleIdle /\ StreamIdle /\ ExtractIdle /\ EmbedIdle /\ PoolIdle /\ RankIdle /\ MergeIdle
SpecKey == InitKey /\ [][KeyNext]_vars

InitEmbed ==
    EmbedInit /\ LabelIdle /\ RunIdle /\ SampleIdle /\ StreamIdle /\ ExtractIdle /\ KeyIdle /\ PoolIdle /\ RankIdle /\ MergeIdle
SpecEmbed == InitEmbed /\ [][EmbedNext]_vars

InitPool ==
    PoolInit /\ LabelIdle /\ RunIdle /\ SampleIdle /\ StreamIdle /\ ExtractIdle /\ KeyIdle /\ EmbedIdle /\ RankIdle /\ MergeIdle
SpecPool == InitPool /\ [][PoolNext]_vars

InitRank ==
    RankInit /\ LabelIdle /\ RunIdle /\ SampleIdle /\ StreamIdle /\ ExtractIdle /\ KeyIdle /\ EmbedIdle /\ PoolIdle /\ MergeIdle
SpecRank == InitRank /\ [][RankNext]_vars

InitMerge ==
    MergeInit /\ LabelIdle /\ RunIdle /\ SampleIdle /\ StreamIdle /\ ExtractIdle /\ KeyIdle /\ EmbedIdle /\ PoolIdle /\ RankIdle
SpecMerge == InitMerge /\ [][MergeNext]_vars

-----------------------------------------------------------------------------
(* Claims about the label protocol *)

\* The label function has returned.
LabelDone == lpc = "done"

\* The batch call returned text (the parse loop ran).
BatchAnswered == lines # <<>>

\* The label the consumers of a label map read for a cluster id: the map's
\* entry, or the placeholder of their labels.get(id, placeholder).
MissingPlaceholder(lab) == IF lab = "cluster_labels" THEN "Misc" ELSE DefaultLabel

FinalLabel(lab, cid) == Get(lresult, cid, MissingPlaceholder(lab))

\* The validation the specification states: a denylisted named-entity
\* substring or one of the generic substrings, case-insensitively.
SpecGenericTerms == {"topic", "cluster", "misc", "general", "various", "other"}

Denylisted(label) ==
    LET label_lower == ToLower(label)
    IN  \E pat \in forbidden_patterns : Contains(label_lower, pat)

FailsValidation(label) ==
    LET label_lower == ToLower(label)
    IN  \/ \E pat \in forbidden_patterns : Contains(label_lower, pat)
        \/ \E pat \in SpecGenericTerms : Contains(label_lower, pat)

\* The dict the parse loop builds from the first lines with no fix applied.
RECURSIVE BatchLabels(_, _, _)
BatchLabels(lab, ls, upto) ==
    IF upto = 0 THEN EmptyDict
    ELSE IF LineParses(ls[upto])
    THEN Put(BatchLabels(lab, ls, upto - 1), LineId(ls[upto]),
             ParsedLabel(lab, SplitColon(ls[upto])[2]))
    ELSE BatchLabels(lab, ls, upto - 1)

\* C1: after the labeling stage completes, on every path, the label map holds
\* an entry for every cluster id handed to the labeler and no entry is empty
\* or whitespace-only.
C1_LabelMapCompleteNoBlank ==
    LabelDone =>
        \A cid \in ClusterIds(labeler) :
            /\ cid \in DOMAIN lresult
            /\ Strip(lresult[cid]) # ""

\* C2: no final label contains a denylisted substring or one of the generic
\* substrings, whether it came from the batch call, from the single-cluster
\* fallback or from the default placeholder.
C2_NoInvalidFinalLabel ==
    LabelDone =>
        \A cid \in ClusterIds(labeler) : ~FailsValidation(FinalLabel(labeler, cid))

\* C3: when the batch response gives a denylisted label for exactly one
\* cluster and valid labels for all others, the fallback is invoked for that
\* cluster only and every other cluster keeps the label the batch call gave.
C3_OnlyRejectedRegenerated ==
    LET batch == BatchLabels(labeler, lines, Len(lines))
    IN  \A bad \in ClusterIds(labeler) :
            ( /\ LabelDone
              /\ BatchAnswered
              /\ ClusterIds(labeler) \subseteq DOMAIN batch
              /\ Denylisted(batch[bad])
              /\ \A cid \in ClusterIds(labeler) \ {bad} : ~FailsValidation(batch[cid]) )
            => /\ {regen_log[i] : i \in 1..Len(regen_log)} = {bad}
               /\ \A cid \in ClusterIds(labeler) \ {bad} : lresult[cid] = batch[cid]

-----------------------------------------------------------------------------
(* Claims about TopicsStrategy.run *)

SoftSteps == {"cluster_labels", "reading", "image", "stream_labels"}

\* C4: a failure of the label oracle, of the reading oracle or of the image
\* oracle never aborts the run: once one of these steps has failed, the run's
\* result never carries an error marker, the failed reading is replaced by
\* its fixed text and a failed image step writes no file, and the run that
\* returns hands back its topics, tarot and streamgraph values.
C4_SoftFailureNeverAborts ==
    soft_failures # {} =>
        /\ "error" \notin result.keys
        /\ ("reading" \in soft_failures /\ rpc # "summary")
              => witty_summary = "(Could not generate summary: error)"
        /\ "image" \in soft_failures => ~image_written
        /\ rpc = "returned" => result = RunResult

\* A run in which all four oracle steps failed and which returned its values
C4_AllSoftStepsFailed ==
    /\ rpc = "returned"
    /\ google_key
    /\ soft_failures = SoftSteps
    /\ result = RunResult

EmbeddingFailed == \E i \in 1..Len(calls_log) : calls_log[i] = "embeddings_failed"

\* C5: for every corpus of n >= 1 records the run that has returned hands
\* back a value for each of topics, tarot and streamgraph, and an error
\* marker is its result only when the credentials are missing or an
\* embedding batch failed.
C5_ErrorOnlyWithoutKeyOrEmbeddings ==
    (rpc = "returned" /\ n >= 1) =>
        /\ (openai_key /\ ~EmbeddingFailed)
              => {"topics", "tarot", "streamgraph"} \subseteq result.keys
        /\ "error" \in result.keys => (~openai_key \/ EmbeddingFailed)

\* C6: for every corpus of n >= 1 records, every cluster count k handed to
\* KMeans, at the catalog and at the trend resolution, satisfies k <= n.
C6_ClusterCountAtMostCorpus ==
    \A i \in 1..Len(kmeans_calls) :
        kmeans_calls[i].n >= 1 => kmeans_calls[i].k <= kmeans_calls[i].n

-----------------------------------------------------------------------------
(* Claims about the cluster counts *)

Clamp(x, lo, hi) == Min(hi, Max(lo, x))

\* C7: for every corpus size n the catalog cluster count is
\* clamp(n // 50, 10, 50) and the trend cluster count is
\* clamp(n // 50, 3, STREAMGRAPH_TOPICS) with STREAMGRAPH_TOPICS = 10;
\* n = 120 gives the catalog count 10.
C7_ClusterCountsAreClamped ==
    /\ STREAMGRAPH_TOPICS = 10
    /\ (rpc = "plan" /\ k_topics # 0) => k_topics = Clamp(n \div 50, 10, 50)
    /\ (rpc = "plan" /\ k_stream # 0) => k_stream = Clamp(n \div 50, 3, STREAMGRAPH_TOPICS)
    /\ (rpc = "plan" /\ k_topics # 0 /\ n = 120) => k_topics = 10

\* Both counts computed for the corpus of 120 records
C7_Corpus120 ==
    /\ rpc = "plan"
    /\ n = 120
    /\ k_topics = 10
    /\ k_stream = 3

-----------------------------------------------------------------------------
(* Claims about the representative sample *)

NoDuplicates(seq) == \A i, j \in 1..Len(seq) : i # j => seq[i] # seq[j]

\* The member nearest to (farthest from) the centroid, by the distances
NearestMember ==
    Members(n_members)[CHOOSE j \in 1..n_members :
        \A i \in 1..n_members : Dist(j, dist_stride) <= Dist(i, dist_stride)]

FarthestMember ==
    Members(n_members)[CHOOSE j \in 1..n_members :
        \A i \in 1..n_members : Dist(j, dist_stride) >= Dist(i, dist_stride)]

\* C8 as stated: at the catalog and at the trend resolution the sample of a
\* cluster of any size holds at most 12 texts and no member index twice.
C8_AtMostTwelveNoDuplicates ==
    spc = "sampled" =>
        /\ Len(sample_indices) <= 12
        /\ NoDuplicates(sample_indices)

\* C8 amended: the sample never holds a member index twice; it holds at most
\* 12 texts at the catalog resolution and at most 15 at the trend resolution,
\* where a cluster of fewer than 15 members is sampled whole and a larger one
\* by three windows of 5.
C8_SampleBoundedNoDuplicates ==
    spc = "sampled" =>
        /\ NoDuplicates(sample_indices)
        /\ resolution = "catalog" => Len(sample_indices) = Min(12, n_members)
        /\ resolution = "trend" => Len(sample_indices) = Min(15, n_members)

\* A trend sample of three windows of 5 taken from a cluster of 15 members
C8_TrendThreeWindows ==
    /\ spc = "sampled"
    /\ resolution = "trend"
    /\ n_members = 15
    /\ Len(sample_indices) = 15

\* C9: the sample of a cluster of 12 or more members includes the member
\* nearest to and the member farthest from the centroid (positions 0 and
\* |M|-1 of the distance-ascending order); the sample of a cluster of fewer
\* than 12 members is all its members.
C9_NearestFarthestIncluded ==
    spc = "sampled" =>
        /\ n_members >= 12 =>
              /\ sorted_by_dist[1] = NearestMember
              /\ sorted_by_dist[n_members] = FarthestMember
              /\ InSeq(NearestMember, sample_indices)
              /\ InSeq(FarthestMember, sample_indices)
        /\ n_members < 12 =>
              /\ Len(sample_indices) = n_members
              /\ {sample_indices[i] : i \in 1..Len(sample_indices)}
                    = {Members(n_members)[j] : j \in 1..n_members}

\* A catalog sample of three windows that leaves members out and holds both ends
C9_CatalogWindowsHoldEnds ==
    /\ spc = "sampled"
    /\ resolution = "catalog"
    /\ n_members = 20
    /\ dist_stride = 7
    /\ Len(sample_indices) = 12
    /\ InSeq(NearestMember, sample_indices)
    /\ InSeq(FarthestMember, sample_indices)

-----------------------------------------------------------------------------
(* Claims about the streamgraph *)

StreamComputed == gpc \in {"count", "sort", "build", "done"}

\* (ISO year, period number) of a moment, and "earlier" on such pairs
PeriodOf(iso) == <<iso[1], (iso[2] - 1) \div PERIOD_WEEKS>>
Earlier(p, q) == p[1] < q[1] \/ (p[1] = q[1] /\ p[2] < q[2])

\* C10: the streamgraph's period list is strictly ascending, holds only
\* period keys that occur in the records, and holds no key greater than or
\* equal to the period key of now, as strings and as moments: the period that
\* contains the current moment is never in the output.
C10_PeriodsClosedAscending ==
    StreamComputed =>
        /\ \A i \in 1..(Len(periods) - 1) : StrLess(periods[i], periods[i + 1])
        /\ \A i \in 1..Len(periods) :
              /\ \E r \in 1..Len(records) : records[r].period = periods[i]
              /\ StrLess(periods[i], PeriodKey(now_iso[1], now_iso[2]))
        /\ \A r \in 1..Len(records) :
              InSeq(records[r].period, periods)
                 => Earlier(PeriodOf(records[r].iso), PeriodOf(now_iso))
        /\ \A r, q \in 1..Len(records) : \A i, j \in 1..Len(periods) :
              (records[r].period = periods[i] /\ records[q].period = periods[j] /\ i < j)
                 => Earlier(PeriodOf(records[r].iso), PeriodOf(records[q].iso))

\* Records of the last period of 2026, of the first of 2027 and of the
\* current period: the two closed periods are kept, the current one dropped
C10_CurrentPeriodDropped ==
    /\ gpc = "done"
    /\ now_iso = <<2027, 3>>
    /\ periods = <<"2026-P26", "2027-P00">>
    /\ \E r \in 1..Len(records) : records[r].period = "2027-P01"

\* The period keys of the records, and those the output leaves out
RecordPeriods == {records[r].period : r \in 1..Len(records)}
DroppedPeriods == RecordPeriods \ {periods[i] : i \in 1..Len(periods)}
CurrentPeriod == PeriodKey(now_iso[1], now_iso[2])

\* no record is dated after the current period
NoRecordAfterNow ==
    \A r \in 1..Len(records) : ~Earlier(PeriodOf(now_iso), PeriodOf(records[r].iso))

\* C11 as stated: whatever the record timestamps and now are, the record
\* period keys the output leaves out are at most one, the current period key.
C11_AtMostCurrentDropped ==
    StreamComputed =>
        /\ Cardinality(DroppedPeriods) <= 1
        /\ DroppedPeriods \subseteq {CurrentPeriod}

\* C11 amended: the record period keys the output leaves out are exactly
\* those greater than or equal to the current period key; when no record is
\* dated after the current period they are at most one, the current period
\* key.
C11_DroppedAreCurrentOrLater ==
    StreamComputed =>
        /\ DroppedPeriods = {p \in RecordPeriods : ~StrLess(p, CurrentPeriod)}
        /\ NoRecordAfterNow =>
              /\ Cardinality(DroppedPeriods) <= 1
              /\ DroppedPeriods \subseteq {CurrentPeriod}

\* Records of two closed periods and of the current one: only the current
\* period is left out
C11_OnlyCurrentDropped ==
    /\ gpc = "done"
    /\ NoRecordAfterNow
    /\ Len(periods) = 2
    /\ DroppedPeriods = {CurrentPeriod}

\* the sum of the topic counts of a row: every field but "period"
RECURSIVE RowSumUpTo(_, _)
RowSumUpTo(row, upto) ==
    IF upto = 0 THEN 0
    ELSE RowSumUpTo(row, upto - 1)
            + (IF row[upto][1] = "period" THEN 0 ELSE row[upto][2])

RowSum(row) == RowSumUpTo(row, Len(row))

RecordsIn(period) == Cardinality({r \in 1..Len(records) : records[r].period = period})

\* C12: for every retained period the topic counts of its row sum to the
\* number of records of that period, for every label map the labeling stage
\* can produce, one that gives two clusters the same label included (stated
\* here for the label maps none of whose labels is spelled "period").
C12_RowSumsMatchRecords ==
    (gpc = "done" /\ \A c \in DOMAIN topic_labels : topic_labels[c] # "period") =>
        /\ Len(values) = Len(periods)
        /\ \A i \in 1..Len(periods) : RowSum(values[i]) = RecordsIn(periods[i])

\* the total of a cluster over the retained periods
RetainedTotal(cluster) ==
    Cardinality({r \in 1..Len(records) :
        /\ records[r].stream_cluster = cluster
        /\ InSeq(records[r].period, periods)})

StreamSorted == gpc \in {"build", "done"}

\* C13: the columns are in descending order of total count, a cluster's
\* total being its count over the retained periods only.
C13_ColumnsByRetainedTotal ==
    StreamSorted =>
        \A i, j \in 1..Len(sorted_topics) :
            i < j => RetainedTotal(sorted_topics[i]) >= RetainedTotal(sorted_topics[j])

\* the position of a cluster's first record
FirstRecordOf(cluster) ==
    CHOOSE r \in 1..Len(records) :
        /\ records[r].stream_cluster = cluster
        /\ \A q \in 1..(r - 1) : records[q].stream_cluster # cluster

\* C14 as stated: of two clusters of equal total the one with the smaller
\* cluster id comes first in the column order, whatever the record order.
C14_TiesByAscendingId ==
    StreamSorted =>
        \A i, j \in 1..Len(sorted_topics) :
            (i < j /\ TopicTotal(records, sorted_topics[i]) = TopicTotal(records, sorted_topics[j]))
                => sorted_topics[i] < sorted_topics[j]

\* C14 amended: the columns are the clusters of the records, each once, in
\* descending order of their totals over all records, and of two clusters of
\* equal total the one whose first record comes earlier in the input comes
\* first.
C14_TiesByFirstAppearance ==
    StreamSorted =>
        /\ {sorted_topics[i] : i \in 1..Len(sorted_topics)}
              = {records[r].stream_cluster : r \in 1..Len(records)}
        /\ NoDuplicates(sorted_topics)
        /\ \A i, j \in 1..Len(sorted_topics) :
              i < j =>
                 /\ TopicTotal(records, sorted_topics[i]) >= TopicTotal(records, sorted_topics[j])
                 /\ TopicTotal(records, sorted_topics[i]) = TopicTotal(records, sorted_topics[j])
                       => FirstRecordOf(sorted_topics[i]) < FirstRecordOf(sorted_topics[j])

\* Two clusters of equal total, the larger id first in the records and in
\* the columns
C14_TieLargerIdFirst ==
    /\ gpc = "done"
    /\ Len(records) = 2
    /\ records[1].stream_cluster = 1
    /\ records[2].stream_cluster = 0
    /\ sorted_topics = <<1, 0>>

\* every record is of the current period or of a later one
AllRecordsOpen ==
    \A r \in 1..Len(records) : ~Earlier(PeriodOf(records[r].iso), PeriodOf(now_iso))

\* C15: when every record falls in the current period or later, the
\* assembler returns with an empty period list and an empty row list, and
\* with the keys of the clusters.
C15_AllOpenGivesEmptyShape ==
    (StreamComputed /\ AllRecordsOpen) =>
        /\ periods = <<>>
        /\ gpc = "done" =>
              /\ values = <<>>
              /\ Len(keys) = Len(sorted_topics)

\* Records of the current period and of a later one, and the empty shape
C15_OpenRecordsReturned ==
    /\ gpc = "done"
    /\ AllRecordsOpen
    /\ \E r \in 1..Len(records) : records[r].period = CurrentPeriod
    /\ \E r \in 1..Len(records) : Earlier(PeriodOf(now_iso), PeriodOf(records[r].iso))
    /\ periods = <<>>
    /\ values = <<>>

-----------------------------------------------------------------------------
(* Claims about the tarot result of the run *)

RunReturnedValues == rpc = "returned" /\ result = RunResult

\* C16: when image generation fails (no image credentials, the image oracle
\* raises, or the response carries no image), the tarot value the run
\* returns has no image reference, and still has its card and persona
\* fields.
C16_NoImageReferenceOnFailure ==
    (RunReturnedValues /\ "image" \in soft_failures) =>
        /\ "image" \notin DOMAIN tarot
        /\ {"title", "subtitle"} \subseteq DOMAIN tarot

\* C17: the run that returns its values has a non-empty card name and a
\* non-empty persona subtitle for every reading text and when the text
\* oracle raises, and the default of a pattern the reading does not hold.
C17_CardAndPersonaNonEmpty ==
    RunReturnedValues =>
        /\ tarot["title"] # ""
        /\ tarot["subtitle"] # ""
        /\ ~SearchBold(witty_summary, 1).found => tarot["title"] = "The Magician"
        /\ ~SearchItalicAfterDash(witty_summary, 1).found
              => tarot["subtitle"] = "Code Alchemist"


-----------------------------------------------------------------------------
(* Claims about record extraction                                           *)

\* The last conversation handed to the extractor has been processed
Processed == conv_idx >= 1

\* What the extractor took from the conversation in data: a sequence of at
\* most one [time, text]
Selected ==
    IF extractor = "records"
    THEN IF Len(emitted_from) > 0 /\ emitted_from[Len(emitted_from)] = conv_idx
         THEN <<[time |-> extracted[Len(extracted)].timestamp,
                 text |-> extracted[Len(extracted)].question]>>
         ELSE <<>>
    ELSE first_msg

\* A timestamped message of the user role, not hidden, not of the
\* context-only content type, non-empty after trimming
UserVisibleText(message) ==
    /\ message.present
    /\ message.role = "user"
    /\ ~message.hidden
    /\ message.content_type # "user_editable_context"
    /\ Strip(JoinStrParts(message.parts)) # ""
    /\ message.create_time > 0

\* The nodes of data that hold an earliest user-visible message
EarliestUserVisible ==
    {i \in 1..Len(data.mapping) :
        /\ UserVisibleText(data.mapping[i])
        /\ \A j \in 1..Len(data.mapping) :
              UserVisibleText(data.mapping[j])
                  => data.mapping[i].create_time <= data.mapping[j].create_time}

SelectedIsNode(i) ==
    /\ Selected[1].time = data.mapping[i].create_time
    /\ Selected[1].text = Strip(JoinStrParts(data.mapping[i].parts))

\* C18: the text and timestamp taken from a conversation are those
\* of an earliest message among the user's visible, non-context, non-empty
\* messages; no later message is selected in its place.
C18_EarliestUserVisibleSelected ==
    (Processed /\ Selected # <<>>)
        => \E i \in EarliestUserVisible : SelectedIsNode(i)

\* C19: record extraction emits at most one record per conversation, in the
\* order of the conversations; a conversation with no qualifying message
\* contributes none, one with a qualifying message contributes its own, and
\* the loop goes through every conversation.
C19_OneRecordPerConversationInOrder ==
    extractor = "records"
        => /\ Len(extracted) = Len(emitted_from)
           /\ \A i \in 1..Len(emitted_from) : emitted_from[i] \in 1..conv_idx
           /\ \A i, j \in 1..Len(emitted_from) :
                 i < j => emitted_from[i] < emitted_from[j]
           /\ Processed
                 => /\ (\A i \in 1..Len(data.mapping) : ~UserVisibleText(data.mapping[i]))
                           => Selected = <<>>
                    /\ Selected # <<>>
                           => extracted[Len(extracted)].title
                                  = (IF data.title = "" THEN "Untitled" ELSE data.title)
           /\ epc = "done" => conv_idx = num_conversations

\* C19 witness: of two conversations the first contributed nothing and the
\* second its record
C19_SkippedThenEmitted ==
    /\ epc = "done"
    /\ extractor = "records"
    /\ num_conversations = 2
    /\ emitted_from = <<2>>
    /\ Len(extracted) = 1


-----------------------------------------------------------------------------
(* Claims about the period key                                              *)

\* a <= b on strings
StrLeq(a, b) == ~StrLess(b, a)

\* C20: the period key preserves order: of two ISO (year, week) pairs with
\* (y1, w1) <= (y2, w2) the first has the key that is not larger under string
\* comparison, and week 52 or 53 of a year has a key strictly smaller than
\* week 1 of the next year.
C20_PeriodKeyOrderPreserving ==
    kpc = "done"
        => /\ StrLeq(period_key, now_period)
           /\ (/\ record_iso[2] \in {52, 53}
               /\ current_iso = <<record_iso[1] + 1, 1>>)
                  => StrLess(period_key, now_period)

\* C20 witness: week 53 of a year followed by week 1 of the next year, with
\* keys in that order
C20_YearRollover ==
    /\ kpc = "done"
    /\ record_iso = <<2026, 53>>
    /\ current_iso = <<2027, 1>>
    /\ period_key = "2026-P26"
    /\ now_period = "2027-P00"


-----------------------------------------------------------------------------
(* Claims about the embedder                                                *)

\* C21: the embedder returns one vector per record, vector i being the
\* embedding of record i, whatever the order of the items of each response;
\* the batches hold at most 100 records, are requested in ascending offset
\* and together send every record exactly once.
C21_OneVectorPerRecordInOrder ==
    /\ \A b \in 1..Len(batches) :
          /\ batches[b][1] = (b - 1) * BatchSize
          /\ batches[b][1] < batches[b][2]
          /\ batches[b][2] - batches[b][1] <= BatchSize
          /\ b > 1 => batches[b][1] = batches[b - 1][2]
    /\ mpc = "done"
          => /\ Len(embeddings) = Len(questions)
             /\ \A i \in 1..Len(questions) :
                   /\ embeddings[i] = EmbeddingOf(Truncated(questions[i]))
                   /\ Cardinality({b \in 1..Len(batches) :
                                      batches[b][1] < i /\ i <= batches[b][2]}) = 1

\* C21 witness: 201 records embedded in three batches, a response of which
\* came back out of order
C21_ThreeBatchesReordered ==
    /\ mpc = "done"
    /\ Len(questions) = 201
    /\ Len(batches) = 3
    /\ reordered


-----------------------------------------------------------------------------
(* Claims about a failed embedding batch                                    *)

\* C22: if an embedding batch fails the run ends with an error result and no
\* later stage runs: no clustering, no label, reading or image call and no
\* image file write follow the failed batch, and no topics, tarot or
\* streamgraph value is reported.
C22_EmbeddingFailureEndsRun ==
    EmbeddingFailed =>
        /\ rpc = "returned"
        /\ result = ExceptionResult("embedding call failed")
        /\ calls_log[Len(calls_log)] = "embeddings_failed"
        /\ \A i \in 1..(Len(calls_log) - 1) : calls_log[i] = "embeddings"
        /\ kmeans_calls = <<>>
        /\ ~image_written
        /\ witty_summary = ""
        /\ tarot = EmptyDict
        /\ MergeTopics(result) = [topics |-> "[]", tarot |-> "{}", streamgraph |-> "{}"]

\* C22 witness: the second batch failed after the first had been embedded
C22_SecondBatchFailed ==
    /\ EmbeddingFailed
    /\ embedded = BatchSize
    /\ Len(calls_log) = 2
    /\ rpc = "returned"


-----------------------------------------------------------------------------
(* Claims about missing credentials                                         *)

InCallsLog(call) == \E i \in 1..Len(calls_log) : calls_log[i] = call

\* C23: when the key of the embedding and text oracle or the key of the image
\* oracle is missing, the run returns a structured error result immediately,
\* before any oracle call is made.
C23_AnyMissingKeyIsAnError ==
    (rpc = "returned" /\ (~openai_key \/ ~google_key))
        => /\ "error" \in result.keys
           /\ calls_log = <<>>

\* C23, amended: when the key of the embedding and text oracle is missing the
\* run returns the structured error result before any oracle call and any
\* clustering; when only the key of the image oracle is missing the image
\* oracle is not called and no file is written, and the run goes on to the
\* trend clustering without an error from the image step.
C23_OnlyOpenAIKeyIsRequired ==
    /\ ~openai_key
          => /\ calls_log = <<>>
             /\ kmeans_calls = <<>>
             /\ rpc = "returned" => result = EmptyResult("OPENAI_API_KEY not found")
    /\ ~google_key
          => /\ ~InCallsLog("image")
             /\ ~image_written
             /\ (rpc = "returned" /\ InCallsLog("reading")) => Len(kmeans_calls) = 2

\* C23 witness: a run without the image key that returned its values
C23_NoImageKeyRunReturned ==
    /\ rpc = "returned"
    /\ openai_key
    /\ ~google_key
    /\ result = RunResult
    /\ InCallsLog("stream_labels")


-----------------------------------------------------------------------------
(* Claims about the worker pool                                             *)

\* C24: under every interleaving of the strategies on the pool, each
\* submitted strategy yields one entry of results, its own, and ends in
\* status "done" or "error"; a strategy that raises or returns an error
\* neither removes nor replaces nor prevents the entry of a sibling, and the
\* shared corpus is never written.
C24_EveryStrategyYieldsItsResult ==
    /\ conversations = Corpus
    /\ ppc \in {"submit", "submitted", "collect", "done"}
    /\ NumberOf("running") <= max_workers
    /\ \A name \in DOMAIN task :
          (task[name] = "collected")
              <=> (/\ name \in DOMAIN results
                   /\ results[name] = future[name].value.result
                   /\ status[name] \in {"done", "error"})
    /\ ppc = "done" => DOMAIN results = StrategySet

\* C24 witness: twelve strategies on the six workers, every strategy but
\* api_key failed, topics by returning its empty result, api_key returned
\* its key, and all twelve entries are there
C24_SiblingsFailedLastDone ==
    /\ ppc = "done"
    /\ Len(strategy_names) = 2 * max_workers
    /\ DOMAIN results = StrategySet
    /\ status["api_key"] = "done"
    /\ results["api_key"] = [keys |-> {"data"}, error |-> ""]
    /\ results["topics"] = EmptyResult("OPENAI_API_KEY not found")
    /\ \A name \in StrategySet \ {"api_key"} : status[name] = "error"


-----------------------------------------------------------------------------
(* Claims about the catalog ranking                                         *)

\* The clusters that hold a record, and the records a cluster holds
NonEmptyClusters == {topics_labels[i] : i \in 1..Len(topics_labels)}
ClusterSize(label) == Cardinality({i \in 1..Len(topics_labels) : topics_labels[i] = label})

RECURSIVE SumOfSizes(_, _)
SumOfSizes(summaries, upto) ==
    IF upto = 0 THEN 0 ELSE SumOfSizes(summaries, upto - 1) + summaries[upto].size

RECURSIVE SumOfShares(_, _)
SumOfShares(listed, upto) ==
    IF upto = 0 THEN 0 ELSE SumOfShares(listed, upto - 1) + listed[upto].pct

\* C25: the summaries are ranked by descending size: the ranks are 1..m with
\* m = min(20, number of non-empty clusters), the size at a rank is at least
\* the size at the next, the sizes are those of the m largest clusters (as
\* many summaries as clusters reach any given size, up to m), the digest has the lines of exactly these m summaries, and the
\* topics list is the first min(10, m) of them with the same ranks.
C25_RankedByDescendingSize ==
    cpc = "done" =>
        LET m == Min(TopN, Cardinality(NonEmptyClusters))
        IN  /\ Len(cluster_summaries) = m
            /\ \A r \in 1..m : cluster_summaries[r].rank = r
            /\ \A r \in 1..(m - 1) : cluster_summaries[r].size >= cluster_summaries[r + 1].size
            /\ \A least \in 1..Len(topics_labels) :
                  Cardinality({r \in 1..m : cluster_summaries[r].size >= least})
                      = Min(m, Cardinality({label \in NonEmptyClusters :
                                               ClusterSize(label) >= least}))
            /\ Len(cluster_list) = m
            /\ \A r \in 1..m :
                  /\ Prefix(cluster_list[r], Len(IntToStr(r)) + 1) = IntToStr(r) \o ")"
                  /\ Contains(cluster_list[r], "(" \o IntToStr(cluster_summaries[r].size) \o ")")
            /\ Len(topics_list) = Min(TopicsShown, m)
            /\ \A r \in 1..Len(topics_list) : topics_list[r].rank = r


\* C25 witness: more than 20 non-empty clusters, met in an order that is not
\* the order of their sizes, ranked into 20 summaries and 10 topics
C25_CutAtTwentyAndTen ==
    /\ cpc = "done"
    /\ Cardinality(NonEmptyClusters) > TopN
    /\ Len(cluster_summaries) = TopN
    /\ Len(topics_list) = TopicsShown
    /\ \E c, d \in 1..Len(clusters) : c < d /\ Len(clusters[c][2]) < Len(clusters[d][2])
    /\ cluster_summaries[1].size > cluster_summaries[TopN].size

\* The groups that hold record index idx
GroupsHolding(idx) ==
    {c \in 1..Len(clusters) : \E j \in 1..Len(clusters[c][2]) : clusters[c][2][j] = idx}

RECURSIVE SumOfGroups(_)
SumOfGroups(upto) ==
    IF upto = 0 THEN 0 ELSE SumOfGroups(upto - 1) + Len(clusters[upto][2])

\* C26: the grouping places each of the n record indices in exactly one
\* group, once, so the sizes of the groups sum to n; when there are at most
\* 10 non-empty clusters the sizes of the listed clusters sum to n and the
\* listed shares sum to 100 up to the rounding of each (half a tenth apiece).
C26_GroupsPartitionRecords ==
    cpc \in {"rank", "label", "done"} =>
        /\ \A idx \in 0..(Len(topics_labels) - 1) :
              /\ Cardinality(GroupsHolding(idx)) = 1
              /\ \A c \in GroupsHolding(idx) :
                    /\ clusters[c][1] = topics_labels[idx + 1]
                    /\ Cardinality({j \in 1..Len(clusters[c][2]) : clusters[c][2][j] = idx}) = 1
        /\ SumOfGroups(Len(clusters)) = Len(topics_labels)
        /\ (cpc = "done" /\ Cardinality(NonEmptyClusters) <= TopicsShown)
              => /\ SumOfSizes(cluster_summaries, Len(topics_list)) = Len(topics_labels)
                 /\ 2 * SumOfShares(topics_list, Len(topics_list)) \in
                        (2000 - Len(topics_list))..(2000 + Len(topics_list))

\* C26 witness: 30 records in 10 clusters, all of them listed
C26_ThirtyRecordsTenClusters ==
    /\ cpc = "done"
    /\ Len(topics_labels) = 30
    /\ Cardinality(NonEmptyClusters) = TopicsShown
    /\ Len(topics_list) = TopicsShown
    /\ SumOfSizes(cluster_summaries, TopicsShown) = 30


-----------------------------------------------------------------------------
(* Claims about the layout of the streamgraph                               *)

\* row[key] of a row of values
RowGet(row, key) == row[CHOOSE k \in 1..Len(row) : row[k][1] = key][2]

\* C27: the streamgraph is column-aligned: the row of every retained period
\* carries that period's key in its "period" field and, under the j-th entry
\* of keys, the count of the j-th cluster of the column order in that period,
\* for every label map, duplicate labels and the label "period" included.
C27_RowsAlignedWithKeys ==
    gpc = "done" =>
        /\ Len(values) = Len(periods)
        /\ Len(keys) = Len(sorted_topics)
        /\ \A i \in 1..Len(periods) :
              /\ \A j \in 1..Len(keys) :
                    RowGet(values[i], keys[j])
                        = PeriodTopicCount(records, periods, periods[i], sorted_topics[j])
              /\ ToString(RowGet(values[i], "period")) = ToString(periods[i])


-----------------------------------------------------------------------------
(* Claims about the digest line of a cluster                                *)

\* the members of a sequence
ItemsOf(seq) == {seq[p] : p \in 1..Len(seq)}

\* the cluster has the members the three-window sample needs
ThreeWindows ==
    \/ resolution = "catalog" /\ n_members >= 12
    \/ resolution = "trend" /\ n_members >= 15

\* C28: for every cluster with at least 12 members (catalog) or at least 15
\* members (trend), the digest line sent to the label oracle for the cluster
\* still holds the cluster's farthest member after the line's own cap.
C28_DigestKeepsFarthest ==
    (spc = "described" /\ ThreeWindows) =>
        sorted_by_dist[n_members] \in ItemsOf(examples)


-----------------------------------------------------------------------------
(* Claims about the number of oracle calls of the label protocol            *)

\* the calls of _regenerate_single_label made for the cluster so far
FallbackCalls(cluster_id) ==
    Cardinality({i \in 1..Len(regen_log) : regen_log[i] = cluster_id})

\* C29: for k clusters the label protocol makes one batch oracle call and at
\* most one single-cluster fallback call per cluster id, at most 1 + k oracle
\* calls in all, for every batch response text, those that repeat a cluster
\* id on several lines or name ids that are not cluster ids included.
C29_AtMostOneFallbackPerCluster ==
    /\ oracle_calls <= 1 + NumClusters
    /\ \A cluster_id \in ClusterIds(labeler) : FallbackCalls(cluster_id) <= 1


-----------------------------------------------------------------------------
(* Claims about the merged data and the completion order                    *)

\* the orders in which the strategies can complete
CompletionOrders(names) ==
    {order \in [1..Cardinality(names) -> names] :
        \A i, j \in 1..Cardinality(names) : i # j => order[i] # order[j]}

\* the results dict filled in the completion order
ResultsIn(order) ==
    [i \in 1..Len(order) |-> <<order[i], ResultOf(order[i], ran[order[i]])>>]

\* a == b of two data dicts: the same keys with the same values
SameData(a, b) ==
    /\ ItemsOf(a.static.perspective) = ItemsOf(b.static.perspective)
    /\ [a EXCEPT !.static.perspective = <<>>] = [b EXCEPT !.static.perspective = <<>>]

MergedTheSameInEveryOrder ==
    \A order \in CompletionOrders(DOMAIN ran) :
        SameData(site_data, MergeResults(ResultsIn(order), Len(order)))

\* the strategies other than "topics" whose result carries the key "error"
Failed == {name \in DOMAIN ran \ {"topics"} : ran[name] = "error"}

PerspectiveNames == {"token_counts", "page_count"}

\* the section merge_results writes for the strategy holds its default
SectionAtDefault(name, merged) ==
    IF name = "basic_counts" THEN merged.static.overview = <<>>
    ELSE IF name = "first_conversation" THEN merged.static.firstConversation = <<>>
    ELSE IF name = "conversation_durations" THEN merged.static.longestConversation = <<>>
    ELSE IF name = "response_lengths" THEN merged.static.longestMessage = <<>>
    ELSE IF name = "streaks" THEN merged.static.streak = <<>>
    ELSE IF name \in PerspectiveNames THEN merged.static.perspective = <<>>
    ELSE IF name = "nutrition_label" THEN merged.static.nutrition = <<>>
    ELSE IF name = "message_timing" THEN merged.charts = <<>>
    ELSE IF name = "swear_apology" THEN merged.frustration = <<>>
    ELSE IF name = "emoji_stats" THEN merged.emojis = <<>>
    ELSE IF name = "api_key" THEN merged.apiKey = ""
    ELSE TRUE

\* the results dict without the strategy's item
Without(items, name) == SelectSeq(items, LAMBDA item : item[1] # name)

\* C30 as stated: the merged data written by the driver are the same for
\* every completion order of a fixed set of per-strategy results, and a result
\* with the key "error" from a strategy other than "topics" leaves that
\* strategy's section at its default value.
C30_ErrorLeavesSectionAtDefault ==
    dpc = "written" =>
        /\ MergedTheSameInEveryOrder
        /\ \A name \in Failed : SectionAtDefault(name, site_data)

\* C30, amended: the merged data are the same for every completion order; a
\* result with the key "error" from a strategy other than "topics" is
\* skipped, so the data are those merged from the other results alone: its
\* section holds its default value, except the "perspective" section shared
\* by token_counts and page_count, which holds what the other of the two
\* returned.
C30_ErrorResultIsSkipped ==
    dpc = "written" =>
        /\ MergedTheSameInEveryOrder
        /\ \A name \in Failed :
              LET others == Without(all_results, name)
              IN  /\ SameData(site_data, MergeResults(others, Len(others)))
                  /\ name \notin PerspectiveNames => SectionAtDefault(name, site_data)
                  /\ name \in PerspectiveNames =>
                        ItemsOf(site_data.static.perspective) =
                            UNION {ItemsOf(ResultOf(other, "returns")) :
                                      other \in {o \in (PerspectiveNames \ {name}) \cap DOMAIN ran :
                                                    ran[o] = "returns"}}

\* token_counts failed, page_count returned, and topics, the last submitted,
\* completed first
C30_TokenCountsFailedTopicsFirst ==
    /\ dpc = "written"
    /\ DOMAIN ran = {"token_counts", "page_count", "topics", "api_key"}
    /\ ran["token_counts"] = "error"
    /\ ran["page_count"] = "returns"
    /\ all_results[1][1] = "topics"
    /\ site_data.static.perspective # <<>>

=============================================================================
